---- MODULE Spec2Model ----
(***************************************************************************)
(* Model of the gold-price prediction pipeline:                            *)
(*   - GoldPriceChart (refresh cycle, provider fallback, quick stats,     *)
(*     prediction, lifecycle)            src/api/[domain]/v1/[rpc].ts      *)
(*   - news sentiment service (cache)    src/src/services/news-sentiment.ts*)
(*   - market quote service (breaker)    src/src/services/market/index.ts  *)
(*                                                                         *)
(* Numbers are exact rationals <<num, den>> (den > 0, lowest terms) where  *)
(* the code uses floating point division.  Times are milliseconds.         *)
(***************************************************************************)
EXTENDS Integers, Sequences, FiniteSets, TLC

\* A nullable value is the empty sequence (null) or a one-element sequence
Null == <<>>
Some(v) == <<v>>
Val(x) == x[1]

(***************************************************************************)
(* Exact rational arithmetic                                               *)
(***************************************************************************)
Abs(x) == IF x < 0 THEN -x ELSE x

RECURSIVE GCD(_, _)
GCD(a, b) == IF b = 0 THEN a ELSE GCD(b, a % b)

RNorm(n, d) ==
  LET s == IF d < 0 THEN -1 ELSE 1
      g == GCD(Abs(n), Abs(d))
  IN  IF n = 0 THEN <<0, 1>> ELSE <<(s * n) \div g, (s * d) \div g>>

R(n) == <<n, 1>>
RAdd(a, b) == RNorm(a[1] * b[2] + b[1] * a[2], a[2] * b[2])
RSub(a, b) == RNorm(a[1] * b[2] - b[1] * a[2], a[2] * b[2])
RMul(a, b) == RNorm(a[1] * b[1], a[2] * b[2])
RDiv(a, b) == RNorm(a[1] * b[2], a[2] * b[1])
RLt(a, b) == a[1] * b[2] < b[1] * a[2]
RLe(a, b) == a[1] * b[2] <= b[1] * a[2]
RMax(a, b) == IF RLt(a, b) THEN b ELSE a
RMin(a, b) == IF RLt(b, a) THEN b ELSE a

(***************************************************************************)
(* JavaScript numbers that leave the rationals: x / 0                      *)
(***************************************************************************)
Infinity == <<1, 0>>
NegInfinity == <<-1, 0>>
NaN == <<0, 0>>
JsSpecial == {Infinity, NegInfinity, NaN}

\* (num / den) * 100 as the code computes a percentage of two prices
JsPercent(num, den) ==
  IF den = 0
    THEN IF num > 0 THEN Infinity ELSE IF num < 0 THEN NegInfinity ELSE NaN
    ELSE RMul(RNorm(num, den), R(100))

\* x > r and x < r for a JavaScript number x and a rational r
JsGt(x, r) == IF x \in JsSpecial THEN x = Infinity ELSE RLt(r, x)
JsLt(x, r) == IF x \in JsSpecial THEN x = NegInfinity ELSE RLt(x, r)

(***************************************************************************)
(* Sequence helpers                                                        *)
(***************************************************************************)
\* Array.prototype.slice(-k)
SliceLast(seq, k) ==
  IF Len(seq) <= k THEN seq ELSE SubSeq(seq, Len(seq) - k + 1, Len(seq))

MinOf(a, b) == IF a < b THEN a ELSE b

\* q ?? 0 on an array element that may be null
OrZero(q) == IF q = Null THEN 0 ELSE Val(q)

\* insertion of p into a sequence sorted by timestamp, after equal timestamps
RECURSIVE InsertByTimestamp(_, _)
InsertByTimestamp(sorted, p) ==
  IF sorted = <<>> THEN <<p>>
  ELSE IF p.timestamp < Head(sorted).timestamp THEN <<p>> \o sorted
  ELSE <<Head(sorted)>> \o InsertByTimestamp(Tail(sorted), p)

\* Array.prototype.sort((a, b) => a.timestamp - b.timestamp): stable
RECURSIVE SortByTimestamp(_)
SortByTimestamp(seq) ==
  IF seq = <<>> THEN <<>>
  ELSE InsertByTimestamp(SortByTimestamp(SubSeq(seq, 1, Len(seq) - 1)), seq[Len(seq)])

(***************************************************************************)
(* Configuration tables                                                    *)
(***************************************************************************)
TimeRanges == {"1h", "6h", "24h", "7d"}

PREDICTION_CONFIG(tf) ==
  CASE tf = "1h"  -> [lookback |-> 30, projectionPoints |-> 3, intervalMs |-> 2 * 60 * 1000]
    [] tf = "6h"  -> [lookback |-> 40, projectionPoints |-> 3, intervalMs |-> 5 * 60 * 1000]
    [] tf = "24h" -> [lookback |-> 48, projectionPoints |-> 3, intervalMs |-> 15 * 60 * 1000]
    [] tf = "7d"  -> [lookback |-> 50, projectionPoints |-> 3, intervalMs |-> 60 * 60 * 1000]

blendWeights(tf) ==
  CASE tf = "1h"  -> <<3, 10>>
    [] tf = "6h"  -> <<1, 2>>
    [] tf = "24h" -> <<7, 10>>
    [] tf = "7d"  -> <<1, 1>>

daysConfig(tf) == IF tf = "7d" THEN "7" ELSE "1"

cutoffConfig(tf) ==
  CASE tf = "1h"  -> 60 * 60 * 1000
    [] tf = "6h"  -> 6 * 60 * 60 * 1000
    [] tf = "24h" -> 24 * 60 * 60 * 1000
    [] tf = "7d"  -> 7 * 24 * 60 * 60 * 1000

rangeConfig(tf) ==
  CASE tf = "1h"  -> [interval |-> "2m",  range |-> "1d", cutoffMs |-> 60 * 60 * 1000]
    [] tf = "6h"  -> [interval |-> "5m",  range |-> "1d", cutoffMs |-> 6 * 60 * 60 * 1000]
    [] tf = "24h" -> [interval |-> "15m", range |-> "1d", cutoffMs |-> 24 * 60 * 60 * 1000]
    [] tf = "7d"  -> [interval |-> "1h",  range |-> "5d", cutoffMs |-> 7 * 24 * 60 * 60 * 1000]

(***************************************************************************)
(* linearRegression: ordinary least squares over x = 0 .. n-1, in exact     *)
(* arithmetic on integer prices                                            *)
(***************************************************************************)
RECURSIVE SumOver(_, _, _)
\* sum of f[i] for i in lo..hi, f a function on integers
SumOver(f, lo, hi) == IF lo > hi THEN 0 ELSE f[hi] + SumOver(f, lo, hi - 1)

RECURSIVE RSumOver(_, _, _)
RSumOver(f, lo, hi) == IF lo > hi THEN R(0) ELSE RAdd(f[hi], RSumOver(f, lo, hi - 1))

\* n, sumX, sumY, sumXY, sumX2 of the regression loop
RegressionSums(values) ==
  [n     |-> Len(values),
   sumX  |-> SumOver([i \in 0..(Len(values) - 1) |-> i], 0, Len(values) - 1),
   sumY  |-> SumOver([i \in 0..(Len(values) - 1) |-> values[i + 1]], 0, Len(values) - 1),
   sumXY |-> SumOver([i \in 0..(Len(values) - 1) |-> i * values[i + 1]], 0, Len(values) - 1),
   sumX2 |-> SumOver([i \in 0..(Len(values) - 1) |-> i * i], 0, Len(values) - 1)]

\* denominator = n * sumX2 - sumX * sumX
RegressionDenominator(s) == s.n * s.sumX2 - s.sumX * s.sumX

\* mutant of RegressionLine: the intercept is the mean of the values
RegressionLine_MeanIntercept(s) ==
  LET slope == RNorm(s.n * s.sumXY - s.sumX * s.sumY, RegressionDenominator(s))
  IN  [slope |-> slope, intercept |-> RNorm(s.sumY, s.n)]

\* slope and intercept, for a non-zero denominator
RegressionLine(s) ==
  LET slope == RNorm(s.n * s.sumXY - s.sumX * s.sumY, RegressionDenominator(s))
  IN  [slope |-> slope,
       intercept |-> RDiv(RSub(R(s.sumY), RMul(slope, R(s.sumX))), R(s.n))]

RSquare(r) == RMul(r, r)

\* ssRes: squared residuals against the fitted line
RegressionSsRes(values, line) ==
  RSumOver([i \in 0..(Len(values) - 1) |->
              RSquare(RSub(R(values[i + 1]), RAdd(RMul(line.slope, R(i)), line.intercept)))],
           0, Len(values) - 1)

\* ssTot: squared deviations from yMean
RegressionSsTot(values, yMean) ==
  RSumOver([i \in 0..(Len(values) - 1) |-> RSquare(RSub(R(values[i + 1]), yMean))],
           0, Len(values) - 1)

\* rSquared = ssTot > 0 ? 1 - ssRes / ssTot : 0
RegressionRSquared(ssRes, ssTot) ==
  IF RLt(R(0), ssTot) THEN RSub(R(1), RDiv(ssRes, ssTot)) ELSE R(0)

RegressionFit(values, s, line) ==
  [slope |-> line.slope, intercept |-> line.intercept,
   rSquared |-> RegressionRSquared(RegressionSsRes(values, line),
                                   RegressionSsTot(values, RNorm(s.sumY, s.n)))]

RegressionOfSums(values, s) ==
  IF RegressionDenominator(s) = 0
    THEN [slope |-> R(0), intercept |-> RNorm(s.sumY, s.n), rSquared |-> R(0)]
    ELSE RegressionFit(values, s, RegressionLine(s))

linearRegression(values) ==
  IF Len(values) < 2
    THEN [slope |-> R(0), intercept |-> IF Len(values) = 1 THEN R(values[1]) ELSE R(0),
          rSquared |-> R(0)]
    ELSE RegressionOfSums(values, RegressionSums(values))

(***************************************************************************)
(* Natural numbers of any size: little-endian sequences of limbs below     *)
(* Limb, without leading zero limbs; <<>> is zero                          *)
(***************************************************************************)
Limb == 2^15

RECURSIVE BigOf(_)
BigOf(k) == IF k = 0 THEN <<>> ELSE <<k % Limb>> \o BigOf(k \div Limb)

RECURSIVE BigTrim(_)
BigTrim(a) ==
  IF a = <<>> THEN <<>>
  ELSE IF a[Len(a)] = 0 THEN BigTrim(SubSeq(a, 1, Len(a) - 1)) ELSE a

LimbAt(a, i) == IF i <= Len(a) THEN a[i] ELSE 0

RECURSIVE BigAddFrom(_, _, _, _)
\* limbs i.. of a + b + carry
BigAddFrom(a, b, i, carry) ==
  IF i > Len(a) /\ i > Len(b)
    THEN (IF carry = 0 THEN <<>> ELSE <<carry>>)
    ELSE <<(LimbAt(a, i) + LimbAt(b, i) + carry) % Limb>>
           \o BigAddFrom(a, b, i + 1, (LimbAt(a, i) + LimbAt(b, i) + carry) \div Limb)

BigAdd(a, b) == BigAddFrom(a, b, 1, 0)

RECURSIVE BigSubFrom(_, _, _, _)
\* limbs i.. of a - b - borrow, for a >= b
BigSubFrom(a, b, i, borrow) ==
  IF i > Len(a) THEN <<>>
  ELSE <<(LimbAt(a, i) - LimbAt(b, i) - borrow + Limb) % Limb>>
         \o BigSubFrom(a, b, i + 1,
                       IF LimbAt(a, i) - LimbAt(b, i) - borrow < 0 THEN 1 ELSE 0)

BigSub(a, b) == BigTrim(BigSubFrom(a, b, 1, 0))

RECURSIVE BigLtFrom(_, _, _)
\* a < b on the limbs 1..i, a and b of the same length
BigLtFrom(a, b, i) ==
  IF i = 0 THEN FALSE
  ELSE IF a[i] # b[i] THEN a[i] < b[i]
  ELSE BigLtFrom(a, b, i - 1)

BigLt(a, b) ==
  IF Len(a) # Len(b) THEN Len(a) < Len(b) ELSE BigLtFrom(a, b, Len(a))

RECURSIVE BigMulSmallFrom(_, _, _, _)
\* limbs i.. of a * k + carry, for k < Limb
BigMulSmallFrom(a, k, i, carry) ==
  IF i > Len(a)
    THEN (IF carry = 0 THEN <<>> ELSE <<carry>>)
    ELSE <<(a[i] * k + carry) % Limb>>
           \o BigMulSmallFrom(a, k, i + 1, (a[i] * k + carry) \div Limb)

BigMulSmall(a, k) == IF k = 0 THEN <<>> ELSE BigMulSmallFrom(a, k, 1, 0)

RECURSIVE BigMulFrom(_, _, _)
\* a * (limbs i.. of b)
BigMulFrom(a, b, i) ==
  IF i > Len(b) THEN <<>>
  ELSE BigAdd(BigMulSmall(a, b[i]),
              BigTrim(<<0>> \o BigMulFrom(a, b, i + 1)))

BigMul(a, b) == IF a = <<>> THEN <<>> ELSE BigMulFrom(a, b, 1)

RECURSIVE BigHalfFrom(_, _, _)
\* limbs 1..i of a \div 2, rem the bit carried down from limb i + 1
BigHalfFrom(a, i, rem) ==
  IF i = 0 THEN <<>>
  ELSE BigHalfFrom(a, i - 1, a[i] % 2) \o <<(rem * Limb + a[i]) \div 2>>

BigHalf(a) == BigTrim(BigHalfFrom(a, Len(a), 0))

BigOdd(a) == a # <<>> /\ a[1] % 2 = 1

RECURSIVE SmallBits(_)
SmallBits(k) == IF k = 0 THEN 0 ELSE 1 + SmallBits(k \div 2)

\* the number of binary digits of a
BigBits(a) ==
  IF a = <<>> THEN 0
  ELSE (Len(a) - 1) * SmallBits(Limb - 1) + SmallBits(a[Len(a)])

RECURSIVE BigShl(_, _)
\* a * 2^k
BigShl(a, k) ==
  IF k = 0 THEN a
  ELSE IF k >= SmallBits(Limb - 1)
         THEN BigShl(BigTrim(<<0>> \o a), k - SmallBits(Limb - 1))
  ELSE BigMulSmall(a, 2^k)

RECURSIVE QuotientDigit(_, _, _, _)
\* the largest digit d + x, x below 2 * w, with (d + x) * b <= r; w is a power
\* of 2, or 0
QuotientDigit(r, b, d, w) ==
  IF w = 0 THEN d
  ELSE IF BigLt(r, BigMulSmall(b, d + w)) THEN QuotientDigit(r, b, d, w \div 2)
  ELSE QuotientDigit(r, b, d + w, w \div 2)

\* the long division's step for one limb: digit d of the quotient found
BigDivDigit(q, r, b, d) ==
  [q |-> BigTrim(<<d>> \o q), r |-> BigSub(r, BigMulSmall(b, d))]

BigDivLimb(q, r, b) == BigDivDigit(q, r, b, QuotientDigit(r, b, 0, Limb \div 2))

RECURSIVE BigDivFrom(_, _, _)
\* quotient and remainder of (limbs i.. of a) by b
BigDivFrom(a, b, i) ==
  IF i > Len(a) THEN [q |-> <<>>, r |-> <<>>]
  ELSE BigDivLimb(BigDivFrom(a, b, i + 1).q,
                  BigTrim(<<a[i]>> \o BigDivFrom(a, b, i + 1).r), b)

\* quotient and remainder of a by b, b > 0
BigDivMod(a, b) == BigDivFrom(a, b, 1)

(***************************************************************************)
(* The Number type: IEEE 754 binary64 with round-to-nearest-even.  A       *)
(* finite value is (-1)^neg * m * 2^e with m below 2^53 (2^53 itself after *)
(* a carry).  The exponent range, infinities and NaN are not modelled:     *)
(* no value computed here leaves the range.                                *)
(***************************************************************************)
SignificandBits == 53

Double(neg, m, e) == [neg |-> neg, m |-> m, e |-> e]
DZero == Double(FALSE, <<>>, 0)
DIsZero(x) == x.m = <<>>
DIsPositive(x) == x.m # <<>> /\ ~x.neg

\* q rounded up when the remainder r of the division by p is above p / 2, or
\* equal to it with q odd
RoundedQuotient(qr, p) ==
  IF BigLt(p, BigMulSmall(qr.r, 2)) \/ (BigMulSmall(qr.r, 2) = p /\ BigOdd(qr.q))
    THEN BigAdd(qr.q, <<1>>)
    ELSE qr.q

\* m * 2^e with the lowest k bits of m rounded away
DRoundBy(neg, m, e, k) ==
  Double(neg, RoundedQuotient(BigDivMod(m, BigShl(<<1>>, k)), BigShl(<<1>>, k)), e + k)

\* the double nearest to (-1)^neg * m * 2^e
DRound(neg, m, e) ==
  IF BigBits(m) <= SignificandBits THEN Double(neg, m, e)
  ELSE DRoundBy(neg, m, e, BigBits(m) - SignificandBits)

\* ma * 2^ea + mb * 2^eb for e the smaller exponent, signs applied
DAddAligned(a, b, ma, mb, e) ==
  IF a.neg = b.neg THEN DRound(a.neg, BigAdd(ma, mb), e)
  ELSE IF BigLt(ma, mb) THEN DRound(b.neg, BigSub(mb, ma), e)
  ELSE DRound(a.neg, BigSub(ma, mb), e)

DAddAt(a, b, e) == DAddAligned(a, b, BigShl(a.m, a.e - e), BigShl(b.m, b.e - e), e)

DAdd(a, b) ==
  IF DIsZero(a) THEN b
  ELSE IF DIsZero(b) THEN a
  ELSE DAddAt(a, b, IF a.e < b.e THEN a.e ELSE b.e)

DNeg(a) == Double(~a.neg, a.m, a.e)
DSub(a, b) == DAdd(a, DNeg(b))

DMul(a, b) ==
  IF DIsZero(a) \/ DIsZero(b) THEN DZero
  ELSE DRound(a.neg # b.neg, BigMul(a.m, b.m), a.e + b.e)

\* the quotient's digits with a sticky bit for the remainder
StickyQuotient(qr) == BigAdd(BigMulSmall(qr.q, 2), IF qr.r = <<>> THEN <<>> ELSE <<1>>)

\* a / b with a.m shifted k bits up so that the quotient has spare digits
DDivBy(a, b, k) ==
  DRound(a.neg # b.neg, StickyQuotient(BigDivMod(BigShl(a.m, k), b.m)), a.e - b.e - k - 1)

\* a / b, b not zero
DDiv(a, b) ==
  IF DIsZero(a) THEN DZero
  ELSE DDivBy(a, b, SignificandBits + 2 + BigBits(b.m))

DOfInt(i) == IF i < 0 THEN Double(TRUE, BigOf(-i), 0) ELSE Double(FALSE, BigOf(i), 0)

\* the double a decimal literal p / q denotes, p and q positive integers
DOfRatio(p, q) == DDiv(DOfInt(p), DOfInt(q))

(***************************************************************************)
(* linearRegression in the arithmetic of the Number type, operation by     *)
(* operation; x ** 2 is x * x                                              *)
(***************************************************************************)
RECURSIVE DSumY(_, _)
\* sumY after the first k values
DSumY(values, k) == IF k = 0 THEN DZero ELSE DAdd(DSumY(values, k - 1), values[k])

RECURSIVE DSumXY(_, _)
\* sumXY after the first k values
DSumXY(values, k) ==
  IF k = 0 THEN DZero
  ELSE DAdd(DSumXY(values, k - 1), DMul(DOfInt(k - 1), values[k]))

\* sumX and sumX2 are sums of small integers, exact in doubles
DSums(values) ==
  [n |-> Len(values),
   sumX  |-> SumOver([i \in 0..(Len(values) - 1) |-> i], 0, Len(values) - 1),
   sumX2 |-> SumOver([i \in 0..(Len(values) - 1) |-> i * i], 0, Len(values) - 1),
   sumY  |-> DSumY(values, Len(values)),
   sumXY |-> DSumXY(values, Len(values))]

\* slope = (n * sumXY - sumX * sumY) / denominator
DSlope(s) ==
  DDiv(DSub(DMul(DOfInt(s.n), s.sumXY), DMul(DOfInt(s.sumX), s.sumY)),
       DOfInt(RegressionDenominator(s)))

\* intercept = (sumY - slope * sumX) / n
DIntercept(s, slope) == DDiv(DSub(s.sumY, DMul(slope, DOfInt(s.sumX))), DOfInt(s.n))

\* x ** 2
DSquare(x) == DMul(x, x)

RECURSIVE DSsRes(_, _, _, _)
\* ssRes after the first k values
DSsRes(values, slope, intercept, k) ==
  IF k = 0 THEN DZero
  ELSE DAdd(DSsRes(values, slope, intercept, k - 1),
            DSquare(DSub(values[k], DAdd(DMul(slope, DOfInt(k - 1)), intercept))))

RECURSIVE DSsTot(_, _, _)
\* ssTot after the first k values
DSsTot(values, yMean, k) ==
  IF k = 0 THEN DZero
  ELSE DAdd(DSsTot(values, yMean, k - 1), DSquare(DSub(values[k], yMean)))

\* rSquared = ssTot > 0 ? 1 - ssRes / ssTot : 0
DRSquared(ssRes, ssTot) ==
  IF DIsPositive(ssTot) THEN DSub(DOfInt(1), DDiv(ssRes, ssTot)) ELSE DZero

DFit(values, s, slope, intercept) ==
  [slope |-> slope, intercept |-> intercept,
   rSquared |-> DRSquared(DSsRes(values, slope, intercept, Len(values)),
                          DSsTot(values, DDiv(s.sumY, DOfInt(s.n)), Len(values)))]

DFitWithSlope(values, s, slope) == DFit(values, s, slope, DIntercept(s, slope))

DRegressionOfSums(values, s) ==
  IF RegressionDenominator(s) = 0
    THEN [slope |-> DZero, intercept |-> DDiv(s.sumY, DOfInt(s.n)), rSquared |-> DZero]
    ELSE DFitWithSlope(values, s, DSlope(s))

\* linearRegression(values) in the arithmetic of the Number type
linearRegressionDouble(values) ==
  IF Len(values) < 2
    THEN [slope |-> DZero, intercept |-> IF Len(values) = 1 THEN values[1] ELSE DZero,
          rSquared |-> DZero]
    ELSE DRegressionOfSums(values, DSums(values))

(***************************************************************************)
(* Sentiment adjustment of one projected value (news-sentiment.ts)         *)
(***************************************************************************)
SENTIMENT_GATE == <<3, 10>>

\* A summary: its fixed text and the trigger words joined after it
Summary(text, triggers) == [text |-> text, triggers |-> triggers]
EmptySummary == Summary("", <<>>)

adjustPredictionWithSentiment(baseValue, sentimentResult) ==
  IF RLt(sentimentResult.confidence, SENTIMENT_GATE)
    THEN baseValue
    ELSE RMul(baseValue, RAdd(R(1), RDiv(sentimentResult.adjustmentPercent, R(100))))

(***************************************************************************)
(* calculatePrediction: blended regression slope, sentiment nudge,         *)
(* projectionPoints future points, trend and confidence                    *)
(***************************************************************************)
TREND_THRESHOLD == <<1, 20>>

\* prices of the lookback window: data.slice(-lookback).map(d => d.close)
LookbackPrices(data, tf) ==
  [i \in 1..Len(SliceLast(data, MinOf(PREDICTION_CONFIG(tf).lookback, Len(data)))) |->
     SliceLast(data, MinOf(PREDICTION_CONFIG(tf).lookback, Len(data)))[i].close]

\* mutant of SentimentGated: a confidence of exactly 0.3 does not pass
SentimentGated_Strict(sentiment) ==
  sentiment # Null /\ RLt(SENTIMENT_GATE, Val(sentiment).confidence)

\* whether the stored sentiment passes the confidence gate
SentimentGated(sentiment) ==
  sentiment # Null /\ RLe(SENTIMENT_GATE, Val(sentiment).confidence)

\* mutant of BlendSlopes: the two weights change places
BlendSlopes_WeightsSwapped(localSlope, scaledGlobalSlope, localWeight) ==
  RAdd(RMul(localSlope, RSub(R(1), localWeight)), RMul(scaledGlobalSlope, localWeight))

\* (localSlope * localWeight) + (scaledGlobalSlope * globalWeight), with
\* globalWeight = 1 - localWeight
BlendSlopes(localSlope, scaledGlobalSlope, localWeight) ==
  RAdd(RMul(localSlope, localWeight), RMul(scaledGlobalSlope, RSub(R(1), localWeight)))

\* the same blend in the arithmetic of the Number type
BlendSlopesDouble(localSlope, scaledGlobalSlope, localWeight) ==
  DAdd(DMul(localSlope, localWeight),
       DMul(scaledGlobalSlope, DSub(DOfInt(1), localWeight)))

\* blendedSlope: local and global slope blended, plus the sentiment's share
PredictionSlope(data, tf, gSlope, sentiment, reg) ==
  LET config == PREDICTION_CONFIG(tf)
      localWeight == blendWeights(tf)
      localIntervalHours == RNorm(config.intervalMs, 60 * 60 * 1000)
      scaledGlobalSlope == RMul(gSlope, localIntervalHours)
      blended0 == BlendSlopes(reg.slope, scaledGlobalSlope, localWeight)
      priceAdjustment ==
        RMul(R(data[Len(data)].close), RDiv(Val(sentiment).adjustmentPercent, R(100)))
      slopeAdjustment == RDiv(priceAdjustment, R(config.projectionPoints))
  IN  IF SentimentGated(sentiment) THEN RAdd(blended0, slopeAdjustment) ELSE blended0

\* sentimentAdjustment of the prediction
PredictionSentimentAdjustment(sentiment) ==
  IF SentimentGated(sentiment) THEN Val(sentiment).adjustmentPercent ELSE R(0)

\* the i-th projected value: lastPoint.close + blendedSlope * i, then the
\* sentiment adjustment when one applies
ProjectedValue(lastPoint, blendedSlope, sentiment, i) ==
  IF PredictionSentimentAdjustment(sentiment) # R(0)
    THEN adjustPredictionWithSentiment(RAdd(R(lastPoint.close), RMul(blendedSlope, R(i))),
                                       Val(sentiment))
    ELSE RAdd(R(lastPoint.close), RMul(blendedSlope, R(i)))

\* mutant of PredictionPoints: the point at index i is stamped i intervals
\* after the last real point
PredictionPoints_LateStamps(lastPoint, tf, blendedSlope, sentiment) ==
  [i \in 1..(PREDICTION_CONFIG(tf).projectionPoints + 1) |->
     IF i = 1
       THEN [timestamp |-> lastPoint.timestamp, value |-> R(lastPoint.close)]
       ELSE [timestamp |-> lastPoint.timestamp + i * PREDICTION_CONFIG(tf).intervalMs,
             value |-> ProjectedValue(lastPoint, blendedSlope, sentiment, i - 1)]]

\* points: the last real point followed by projectionPoints projected ones
PredictionPoints(lastPoint, tf, blendedSlope, sentiment) ==
  [i \in 1..(PREDICTION_CONFIG(tf).projectionPoints + 1) |->
     IF i = 1
       THEN [timestamp |-> lastPoint.timestamp, value |-> R(lastPoint.close)]
       ELSE [timestamp |-> lastPoint.timestamp + (i - 1) * PREDICTION_CONFIG(tf).intervalMs,
             value |-> ProjectedValue(lastPoint, blendedSlope, sentiment, i - 1)]]

\* totalChangePercent = (lastProjected - lastPoint.close) / lastPoint.close * 100
TotalChangePercent(lastClose, totalChange) ==
  IF lastClose = 0
    THEN JsPercent(totalChange[1], 0)
    ELSE RMul(RDiv(totalChange, R(lastClose)), R(100))

TrendOfChange(totalChangePercent) ==
  IF JsGt(totalChangePercent, TREND_THRESHOLD) THEN "bullish"
  ELSE IF JsLt(totalChangePercent, RSub(R(0), TREND_THRESHOLD)) THEN "bearish"
  ELSE "neutral"

PredictionTrend(lastPoint, points) ==
  TrendOfChange(TotalChangePercent(lastPoint.close,
                                   RSub(points[Len(points)].value, R(lastPoint.close))))

PredictionResult(lastPoint, sentiment, reg, blendedSlope, points) ==
  [points |-> points,
   slope |-> blendedSlope,
   trend |-> PredictionTrend(lastPoint, points),
   confidence |-> RMax(R(0), RMin(R(1), reg.rSquared)),
   sentimentAdjustment |-> PredictionSentimentAdjustment(sentiment),
   sentimentSummary |-> IF SentimentGated(sentiment) THEN Val(sentiment).summary
                        ELSE EmptySummary]

PredictionWithSlope(lastPoint, tf, sentiment, reg, blendedSlope) ==
  PredictionResult(lastPoint, sentiment, reg, blendedSlope,
                   PredictionPoints(lastPoint, tf, blendedSlope, sentiment))

PredictionWithRegression(data, tf, gSlope, sentiment, reg) ==
  PredictionWithSlope(data[Len(data)], tf, sentiment, reg,
                      PredictionSlope(data, tf, gSlope, sentiment, reg))

calculatePrediction(data, tf, gSlope, sentiment) ==
  IF Len(data) < 10 THEN Null
  ELSE Some(PredictionWithRegression(data, tf, gSlope, sentiment,
                                     linearRegression(LookbackPrices(data, tf))))

(***************************************************************************)
(* Provider payloads -> GoldPriceDataPoint[]                               *)
(***************************************************************************)
\* Date.now() during the refresh cycles modelled here
NowMs == 1000000 * 1000

\* CoinGecko [timestamp, price] -> point
CoinGeckoPoint(p) ==
  [timestamp |-> p[1], open |-> p[2], high |-> p[2], low |-> p[2], close |-> p[2],
   volume |-> 0]

\* What fetchXautFromCoinGecko returns for a response, with the time range
\* selected when the response is processed; Null is the code's null.
XautFromResponse(resp, tf) ==
  IF resp.kind # "ok" THEN Null
  ELSE IF resp.prices = Null \/ Len(Val(resp.prices)) = 0 THEN Null
  ELSE LET prices == Val(resp.prices)
           allPoints == [i \in 1..Len(prices) |-> CoinGeckoPoint(prices[i])]
           cutoff == NowMs - cutoffConfig(tf)
           filteredPoints == SelectSeq(allPoints, LAMBDA p : p.timestamp >= cutoff)
       IN  Some(IF Len(filteredPoints) > 0 THEN filteredPoints ELSE SliceLast(allPoints, 60))

\* mutant of PrimaryAccepted: a series of exactly 5 points is accepted
PrimaryAccepted_AtLeastFive(xautData) == xautData # Null /\ Len(Val(xautData)) >= 5

\* fetchData's acceptance test of the primary provider's series
PrimaryAccepted(xautData) == xautData # Null /\ Len(Val(xautData)) > 5

\* Whether fetchFromYahooFinance throws on this response
YahooThrows(resp) ==
  \/ resp.kind # "ok"
  \/ resp.result = Null
  \/ Val(resp.result).timestamp = Null
  \/ Val(resp.result).quote = Null

\* quote.<name>?.[i] ?? 0
YahooField(quote, name, i) ==
  IF quote[name] = Null \/ i > Len(Val(quote[name])) THEN 0 ELSE OrZero(Val(quote[name])[i])

\* The series fetchFromYahooFinance stores for an ok response; tf is the time
\* range read before the request was sent.
YahooSeries(resp, tf) ==
  LET ts == Val(Val(resp.result).timestamp)
      quote == Val(Val(resp.result).quote)
      mapped == [i \in 1..Len(ts) |->
                   [timestamp |-> ts[i] * 1000,
                    open |-> YahooField(quote, "open", i),
                    high |-> YahooField(quote, "high", i),
                    low |-> YahooField(quote, "low", i),
                    close |-> YahooField(quote, "close", i),
                    volume |-> YahooField(quote, "volume", i)]]
      allPoints == SortByTimestamp(SelectSeq(mapped, LAMBDA p : p.close > 0))
      cutoff == NowMs - rangeConfig(tf).cutoffMs
      filteredPoints == SelectSeq(allPoints, LAMBDA p : p.timestamp >= cutoff)
  IN  IF Len(filteredPoints) > 0 THEN filteredPoints ELSE SliceLast(allPoints, 60)

(***************************************************************************)
(* fetchQuickStats: the 7-day reference window and the statistics          *)
(***************************************************************************)
\* data24h after the CoinGecko attempt (empty on any failure)
QuickStatsPrimaryWindow(resp) ==
  IF resp.kind = "ok" /\ resp.prices # Null
    THEN [i \in 1..Len(Val(resp.prices)) |->
            [timestamp |-> Val(resp.prices)[i][1], close |-> Val(resp.prices)[i][2],
             high |-> Val(resp.prices)[i][2], low |-> Val(resp.prices)[i][2]]]
    ELSE <<>>

\* data24h after the Yahoo fallback (for a response that does not throw)
QuickStatsFallbackWindow(resp) ==
  IF resp.kind = "ok" /\ resp.result # Null /\ Val(resp.result).timestamp # Null
     /\ Val(resp.result).quote # Null
    THEN LET ts == Val(Val(resp.result).timestamp)
             quote == Val(Val(resp.result).quote)
             mapped == [i \in 1..Len(ts) |->
                          [timestamp |-> ts[i] * 1000,
                           close |-> YahooField(quote, "close", i),
                           high |-> YahooField(quote, "high", i),
                           low |-> YahooField(quote, "low", i)]]
         IN  SelectSeq(mapped, LAMBDA p : p.close > 0)
    ELSE <<>>

RECURSIVE WeeklyHigh(_, _)
WeeklyHigh(seq, acc) ==
  IF seq = <<>> THEN acc
  ELSE WeeklyHigh(Tail(seq), IF Head(seq).high > acc THEN Head(seq).high ELSE acc)

\* acc = Null stands for Infinity
RECURSIVE WeeklyLow(_, _)
WeeklyLow(seq, acc) ==
  IF seq = <<>> THEN acc
  ELSE WeeklyLow(Tail(seq),
                 IF Head(seq).low > 0 /\ (acc = Null \/ Head(seq).low < Val(acc))
                   THEN Some(Head(seq).low) ELSE acc)

QS_TREND_THRESHOLD == <<3, 10>>

\* The QuickStats computed from a non-empty window
ComputeQuickStats(data24h) ==
  LET last7d == SelectSeq(data24h, LAMBDA p : p.timestamp >= NowMs - 7 * 24 * 60 * 60 * 1000)
      weeklyHigh == WeeklyHigh(last7d, 0)
      weeklyLow == WeeklyLow(last7d, Null)
      last24h == SelectSeq(data24h, LAMBDA p : p.timestamp >= NowMs - 24 * 60 * 60 * 1000)
      first == last24h[1]
      latest == last24h[Len(last24h)]
      has24h == Len(last24h) > 0
      currentPrice == IF has24h THEN latest.close ELSE data24h[Len(data24h)].close
      change24h == IF has24h THEN latest.close - first.close ELSE 0
      changePercent24h ==
        IF has24h THEN JsPercent(latest.close - first.close, first.close) ELSE R(0)
      trend ==
        IF JsGt(changePercent24h, QS_TREND_THRESHOLD) THEN "bullish"
        ELSE IF JsLt(changePercent24h, RSub(R(0), QS_TREND_THRESHOLD)) THEN "bearish"
        ELSE "neutral"
  IN  [currentPrice |-> currentPrice,
       change24h |-> change24h,
       changePercent24h |-> changePercent24h,
       weeklyHigh |-> IF weeklyHigh > 0 THEN weeklyHigh ELSE currentPrice,
       weeklyLow |-> IF weeklyLow # Null THEN Val(weeklyLow) ELSE currentPrice,
       trend |-> trend]

(***************************************************************************)
(* Provider payloads the environment can answer with                       *)
(***************************************************************************)
\* n points ending `endAge` ms before now, `step` ms apart, prices base, base+inc, ...
PriceSeries(n, endAge, step, base, inc) ==
  [i \in 1..n |-> <<NowMs - endAge - (n - i) * step, base + (i - 1) * inc>>]

\* kind: "ok" (2xx with a JSON body), "notok" (another status), "throw" (the
\* request or the body's parse rejects)
CoinGeckoOk(prices) == [kind |-> "ok", prices |-> prices]
HttpNotOk == [kind |-> "notok"]
NetworkError == [kind |-> "throw"]

\* 5 points inside the last hour: one short of acceptance
CG_Five == CoinGeckoOk(Some(PriceSeries(5, 0, 10 * 60 * 1000, 2000, 1)))
\* 12 points 10 minutes apart: 7 inside the last hour, all 12 inside 6 hours
CG_Twelve == CoinGeckoOk(Some(PriceSeries(12, 0, 10 * 60 * 1000, 2010, 2)))
\* 6 points, all older than 7 days: the cut-off leaves none, slice(-60) keeps all
CG_Stale == CoinGeckoOk(Some(PriceSeries(6, 8 * 24 * 60 * 60 * 1000, 60 * 60 * 1000, 1990, 0)))
\* 7 rows inside the last hour: out of order, one timestamp twice, one price 0
CG_Jumbled ==
  CoinGeckoOk(Some(<<<<NowMs - 10 * 60 * 1000, 2012>>, <<NowMs - 20 * 60 * 1000, 2011>>,
                     <<NowMs - 10 * 60 * 1000, 2012>>, <<NowMs - 5 * 60 * 1000, 0>>,
                     <<NowMs - 4 * 60 * 1000, 2013>>, <<NowMs - 2 * 60 * 1000, 2014>>,
                     <<NowMs, 2015>>>>))
CG_Empty == CoinGeckoOk(Some(<<>>))
CG_NoPrices == CoinGeckoOk(Null)

PrimaryResponses ==
  {CG_Five, CG_Twelve, CG_Stale, CG_Jumbled, CG_Empty, CG_NoPrices, HttpNotOk, NetworkError}

\* a JSON array of numbers, none of them null
Nums(seq) == [i \in 1..Len(seq) |-> Some(seq[i])]

YahooOk(ts, open, high, low, close) ==
  [kind |-> "ok",
   result |-> Some([timestamp |-> Some(ts),
                    quote |-> Some([open |-> Some(open), high |-> Some(high),
                                    low |-> Some(low), close |-> Some(close),
                                    volume |-> Null])])]

NowSec == NowMs \div 1000

\* 10 points 5 minutes apart inside the last hour
YH_Ten ==
  LET ts == [i \in 1..10 |-> NowSec - (10 - i) * 300]
      px == [i \in 1..10 |-> 2020 + i]
  IN  YahooOk(ts, Nums(px), Nums(px), Nums(px), Nums(px))
\* 4 rows, out of order, one without a close: 3 valid points
YH_Three ==
  YahooOk(<<NowSec - 600, NowSec - 1200, NowSec - 300, NowSec>>,
          <<Some(2031), Some(2030), Null, Some(2033)>>, Nums(<<2032, 2031, 2033, 2034>>),
          Nums(<<2030, 2029, 2031, 2032>>), <<Some(2031), Some(2030), Null, Some(2033)>>)
YH_Empty == YahooOk(<<>>, <<>>, <<>>, <<>>, <<>>)
YH_NoResult == [kind |-> "ok", result |-> Null]

SecondaryResponses == {YH_Ten, YH_Three, YH_Empty, YH_NoResult, HttpNotOk, NetworkError}

\* quick stats, primary: 3 points (2 days ago, 12 hours ago, now)
QS_Week ==
  CoinGeckoOk(Some(<<<<NowMs - 2 * 24 * 60 * 60 * 1000, 2000>>,
                     <<NowMs - 12 * 60 * 60 * 1000, 2010>>,
                     <<NowMs, 2020>>>>))
QuickStatsPrimaryResponses == {QS_Week, CG_Empty, CG_NoPrices, HttpNotOk, NetworkError}

\* quick stats, fallback: 2 hourly points, 3 days old
YH_Week ==
  LET ts == <<NowSec - 3 * 86400 - 3600, NowSec - 3 * 86400>>
  IN  YahooOk(ts, Nums(<<1995, 1996>>), Nums(<<1997, 1998>>), Nums(<<1994, 1995>>),
              Nums(<<1996, 1997>>))
QuickStatsFallbackResponses == {YH_Week, YH_Empty, YH_NoResult, HttpNotOk, NetworkError}

\* global slope: 20 hourly closes rising by 2, and too few closes
YH_Global ==
  LET ts == [i \in 1..20 |-> NowSec - (20 - i) * 3600]
      px == [i \in 1..20 |-> 1980 + 2 * i]
  IN  YahooOk(ts, Nums(px), Nums(px), Nums(px), Nums(px))
GlobalSlopeResponses == {YH_Global, YH_Ten, YH_NoResult, HttpNotOk, NetworkError}

(***************************************************************************)
(* News sentiment: the keyword lexicon.  A string is a sequence of         *)
(* one-character strings.                                                  *)
(***************************************************************************)
BULLISH_KEYWORDS ==
  <<
    <<"w", "a", "r">>,
    <<"a", "t", "t", "a", "c", "k">>,
    <<"m", "i", "s", "s", "i", "l", "e">>,
    <<"m", "i", "l", "i", "t", "a", "r", "y">>,
    <<"i", "n", "v", "a", "s", "i", "o", "n">>,
    <<"c", "o", "n", "f", "l", "i", "c", "t">>,
    <<"t", "e", "n", "s", "i", "o", "n">>,
    <<"i", "r", "a", "n">>,
    <<"i", "s", "r", "a", "e", "l">>,
    <<"r", "u", "s", "s", "i", "a">>,
    <<"u", "k", "r", "a", "i", "n", "e">>,
    <<"c", "h", "i", "n", "a">>,
    <<"t", "a", "i", "w", "a", "n">>,
    <<"n", "o", "r", "t", "h", " ", "k", "o", "r", "e", "a">>,
    <<"s", "t", "r", "i", "k", "e">>,
    <<"b", "o", "m", "b">>,
    <<"e", "s", "c", "a", "l", "a", "t", "i", "o", "n">>,
    <<"s", "a", "n", "c", "t", "i", "o", "n", "s">>,
    <<"r", "e", "t", "a", "l", "i", "a", "t", "i", "o", "n">>,
    <<"c", "r", "a", "s", "h">>,
    <<"c", "r", "i", "s", "i", "s">>,
    <<"r", "e", "c", "e", "s", "s", "i", "o", "n">>,
    <<"c", "o", "l", "l", "a", "p", "s", "e">>,
    <<"p", "a", "n", "i", "c">>,
    <<"f", "e", "a", "r">>,
    <<"u", "n", "c", "e", "r", "t", "a", "i", "n", "t", "y">>,
    <<"d", "e", "f", "a", "u", "l", "t">>,
    <<"b", "a", "n", "k", "r", "u", "p", "t", "c", "y">>,
    <<"l", "a", "y", "o", "f", "f">>,
    <<"d", "o", "w", "n", "t", "u", "r", "n">>,
    <<"i", "n", "f", "l", "a", "t", "i", "o", "n">>,
    <<"c", "p", "i">>,
    <<"r", "i", "s", "i", "n", "g", " ", "p", "r", "i", "c", "e", "s">>,
    <<"c", "o", "s", "t", " ", "o", "f", " ", "l", "i", "v", "i", "n", "g">>,
    <<"s", "t", "a", "g", "f", "l", "a", "t", "i", "o", "n">>,
    <<"d", "o", "l", "l", "a", "r", " ", "w", "e", "a", "k">>,
    <<"d", "o", "l", "l", "a", "r", " ", "f", "a", "l", "l">>,
    <<"d", "x", "y", " ", "d", "o", "w", "n">>,
    <<"d", "o", "l", "l", "a", "r", " ", "d", "e", "c", "l", "i", "n", "e">>,
    <<"u", "s", "d", " ", "f", "a", "l", "l", "s">>,
    <<"r", "a", "t", "e", " ", "c", "u", "t">>,
    <<"d", "o", "v", "i", "s", "h">>,
    <<"q", "u", "a", "n", "t", "i", "t", "a", "t", "i", "v", "e", " ", "e", "a", "s", "i", "n", "g">>,
    <<"q", "e">>,
    <<"s", "t", "i", "m", "u", "l", "u", "s">>,
    <<"l", "o", "w", "e", "r", " ", "r", "a", "t", "e", "s">>,
    <<"m", "o", "n", "e", "y", " ", "p", "r", "i", "n", "t", "i", "n", "g">>,
    <<"f", "e", "d", " ", "p", "a", "u", "s", "e">>,
    <<"g", "o", "l", "d", " ", "r", "a", "l", "l", "y">>,
    <<"g", "o", "l", "d", " ", "s", "u", "r", "g", "e">>,
    <<"g", "o", "l", "d", " ", "r", "e", "c", "o", "r", "d">>,
    <<"g", "o", "l", "d", " ", "h", "i", "g", "h">>,
    <<"g", "o", "l", "d", " ", "d", "e", "m", "a", "n", "d">>,
    <<"c", "e", "n", "t", "r", "a", "l", " ", "b", "a", "n", "k", " ", "b", "u", "y", "i", "n", "g">>,
    <<"g", "o", "l", "d", " ", "r", "e", "s", "e", "r", "v", "e", "s">>,
    <<"s", "a", "f", "e", " ", "h", "a", "v", "e", "n">>,
    <<"s", "a", "f", "e", "-", "h", "a", "v", "e", "n">>,
    <<"g", "o", "l", "d", " ", "e", "t", "f", " ", "i", "n", "f", "l", "o", "w">>,
    <<"g", "o", "l", "d", " ", "p", "r", "i", "c", "e", " ", "u", "p">>,
    <<"g", "o", "l", "d", " ", "b", "u", "l", "l", "i", "s", "h">>,
    <<"v", "o", "l", "a", "t", "i", "l", "i", "t", "y">>,
    <<"v", "i", "x", " ", "s", "p", "i", "k", "e">>,
    <<"r", "i", "s", "k", " ", "o", "f", "f">>,
    <<"f", "l", "i", "g", "h", "t", " ", "t", "o", " ", "s", "a", "f", "e", "t", "y">>
  >>

BEARISH_KEYWORDS ==
  <<
    <<"d", "o", "l", "l", "a", "r", " ", "s", "t", "r", "e", "n", "g", "t", "h">>,
    <<"d", "x", "y", " ", "u", "p">>,
    <<"d", "o", "l", "l", "a", "r", " ", "r", "a", "l", "l", "y">>,
    <<"s", "t", "r", "o", "n", "g", " ", "d", "o", "l", "l", "a", "r">>,
    <<"u", "s", "d", " ", "r", "i", "s", "e", "s">>,
    <<"r", "a", "t", "e", " ", "h", "i", "k", "e">>,
    <<"h", "a", "w", "k", "i", "s", "h">>,
    <<"t", "a", "p", "e", "r">>,
    <<"t", "i", "g", "h", "t", "e", "n", "i", "n", "g">>,
    <<"i", "n", "f", "l", "a", "t", "i", "o", "n", " ", "c", "o", "o", "l">>,
    <<"f", "e", "d", " ", "r", "a", "i", "s", "e">>,
    <<"h", "i", "g", "h", "e", "r", " ", "r", "a", "t", "e", "s">>,
    <<"i", "n", "t", "e", "r", "e", "s", "t", " ", "r", "a", "t", "e", " ", "i", "n", "c", "r", "e", "a", "s", "e">>,
    <<"m", "a", "r", "k", "e", "t", " ", "r", "a", "l", "l", "y">>,
    <<"s", "t", "o", "c", "k", "s", " ", "s", "u", "r", "g", "e">>,
    <<"r", "i", "s", "k", " ", "o", "n">>,
    <<"b", "u", "l", "l", " ", "m", "a", "r", "k", "e", "t">>,
    <<"o", "p", "t", "i", "m", "i", "s", "m">>,
    <<"e", "c", "o", "n", "o", "m", "i", "c", " ", "g", "r", "o", "w", "t", "h">>,
    <<"r", "e", "c", "o", "v", "e", "r", "y">>,
    <<"s", "t", "r", "o", "n", "g", " ", "j", "o", "b", "s">>,
    <<"l", "o", "w", " ", "u", "n", "e", "m", "p", "l", "o", "y", "m", "e", "n", "t">>,
    <<"g", "o", "l", "d", " ", "f", "a", "l", "l">>,
    <<"g", "o", "l", "d", " ", "d", "r", "o", "p">>,
    <<"g", "o", "l", "d", " ", "d", "e", "c", "l", "i", "n", "e">>,
    <<"g", "o", "l", "d", " ", "s", "e", "l", "l", "o", "f", "f">>,
    <<"g", "o", "l", "d", " ", "o", "u", "t", "f", "l", "o", "w">>,
    <<"g", "o", "l", "d", " ", "b", "e", "a", "r", "i", "s", "h">>,
    <<"g", "o", "l", "d", " ", "p", "r", "i", "c", "e", " ", "d", "o", "w", "n">>,
    <<"g", "o", "l", "d", " ", "e", "t", "f", " ", "o", "u", "t", "f", "l", "o", "w">>,
    <<"c", "e", "a", "s", "e", "f", "i", "r", "e">>,
    <<"p", "e", "a", "c", "e", " ", "d", "e", "a", "l">>,
    <<"d", "e", "-", "e", "s", "c", "a", "l", "a", "t", "i", "o", "n">>,
    <<"r", "e", "s", "o", "l", "u", "t", "i", "o", "n">>,
    <<"s", "t", "a", "b", "i", "l", "i", "t", "y">>
  >>

\* HIGH_IMPACT_MULTIPLIERS[keyword] || 1
MultiplierOf(keyword) ==
  CASE keyword = <<"i", "r", "a", "n">> -> <<3, 2>>
    [] keyword = <<"i", "s", "r", "a", "e", "l">> -> <<3, 2>>
    [] keyword = <<"w", "a", "r">> -> <<2, 1>>
    [] keyword = <<"a", "t", "t", "a", "c", "k">> -> <<9, 5>>
    [] keyword = <<"m", "i", "s", "s", "i", "l", "e">> -> <<17, 10>>
    [] keyword = <<"n", "u", "c", "l", "e", "a", "r">> -> <<2, 1>>
    [] keyword = <<"r", "a", "t", "e", " ", "c", "u", "t">> -> <<3, 2>>
    [] keyword = <<"r", "a", "t", "e", " ", "h", "i", "k", "e">> -> <<3, 2>>
    [] keyword = <<"r", "e", "c", "e", "s", "s", "i", "o", "n">> -> <<9, 5>>
    [] keyword = <<"c", "r", "a", "s", "h">> -> <<9, 5>>
    [] keyword = <<"f", "e", "d">> -> <<13, 10>>
    [] OTHER -> <<1, 1>>

(***************************************************************************)
(* analyzeHeadline / analyzeHeadlines                                      *)
(***************************************************************************)
\* String.prototype.toLowerCase, on the Latin letters
ToLowerChar(ch) ==
  CASE ch = "A" -> "a"
    [] ch = "B" -> "b"
    [] ch = "C" -> "c"
    [] ch = "D" -> "d"
    [] ch = "E" -> "e"
    [] ch = "F" -> "f"
    [] ch = "G" -> "g"
    [] ch = "H" -> "h"
    [] ch = "I" -> "i"
    [] ch = "J" -> "j"
    [] ch = "K" -> "k"
    [] ch = "L" -> "l"
    [] ch = "M" -> "m"
    [] ch = "N" -> "n"
    [] ch = "O" -> "o"
    [] ch = "P" -> "p"
    [] ch = "Q" -> "q"
    [] ch = "R" -> "r"
    [] ch = "S" -> "s"
    [] ch = "T" -> "t"
    [] ch = "U" -> "u"
    [] ch = "V" -> "v"
    [] ch = "W" -> "w"
    [] ch = "X" -> "x"
    [] ch = "Y" -> "y"
    [] ch = "Z" -> "z"
    [] OTHER -> ch

ToLowerCase(str) == [i \in 1..Len(str) |-> ToLowerChar(str[i])]

\* String.prototype.includes
Includes(str, keyword) ==
  \E i \in 1..(Len(str) - Len(keyword) + 1) :
     SubSeq(str, i, i + Len(keyword) - 1) = keyword

Trigger(sign, keyword) == [sign |-> sign, keyword |-> keyword]

UNIT_SCORE == <<3, 10>>

\* The keywords of a list that the lower-cased headline includes, in list order
MatchedKeywords(lower, keywords) == SelectSeq(keywords, LAMBDA k : Includes(lower, k))

\* analyzeHeadline's loop body applied to the matched keywords, in order;
\* dir is 1 for the bullish list and -1 for the bearish list.
RECURSIVE ScoreMatches(_, _, _)
ScoreMatches(matches, dir, acc) ==
  IF matches = <<>> THEN acc
  ELSE LET keyword == Head(matches)
           multiplier == MultiplierOf(keyword)
       IN  ScoreMatches(Tail(matches), dir,
             [score |-> RAdd(acc.score, RMul(R(dir), RMul(UNIT_SCORE, multiplier))),
              weight |-> RMax(acc.weight, multiplier),
              triggers |-> Append(acc.triggers,
                                  Trigger(IF dir = 1 THEN "+" ELSE "-", keyword))])

\* mutant of analyzeHeadline: the score is returned without the clamp
analyzeHeadline_NoClamp(headline) ==
  LET lower == ToLowerCase(headline)
      start == [score |-> R(0), weight |-> R(1), triggers |-> <<>>]
      bull == ScoreMatches(MatchedKeywords(lower, BULLISH_KEYWORDS), 1, start)
      both == ScoreMatches(MatchedKeywords(lower, BEARISH_KEYWORDS), -1, bull)
  IN  [score |-> both.score, weight |-> both.weight, triggers |-> both.triggers]

analyzeHeadline(headline) ==
  LET lower == ToLowerCase(headline)
      start == [score |-> R(0), weight |-> R(1), triggers |-> <<>>]
      bull == ScoreMatches(MatchedKeywords(lower, BULLISH_KEYWORDS), 1, start)
      both == ScoreMatches(MatchedKeywords(lower, BEARISH_KEYWORDS), -1, bull)
  IN  [score |-> RMax(R(-1), RMin(R(1), both.score)),
       weight |-> both.weight,
       triggers |-> both.triggers]

\* [...new Set(seq)]: first occurrences, in order
RECURSIVE Dedupe(_, _)
Dedupe(seq, acc) ==
  IF seq = <<>> THEN acc
  ELSE Dedupe(Tail(seq),
              IF \E i \in 1..Len(acc) : acc[i] = Head(seq) THEN acc ELSE Append(acc, Head(seq)))

\* Array.prototype.slice(0, k)
SliceFirst(seq, k) == IF Len(seq) <= k THEN seq ELSE SubSeq(seq, 1, k)

RECURSIVE FlattenTriggers(_)
FlattenTriggers(results) ==
  IF results = <<>> THEN <<>> ELSE Head(results).triggers \o FlattenTriggers(Tail(results))

SUMMARY_THRESHOLD == <<3, 10>>

\* results: analyzeHeadline of every headline
HeadlineResults(headlines) ==
  [i \in 1..Len(headlines) |-> analyzeHeadline(headlines[i])]

\* avgScore = totalWeight > 0 ? totalScore / totalWeight : 0
AverageScore(totalScore, totalWeight) ==
  IF RLt(R(0), totalWeight) THEN RDiv(totalScore, totalWeight) ELSE R(0)

HeadlinesAverageScore(results) ==
  AverageScore(RSumOver([i \in 1..Len(results) |-> RMul(results[i].score, results[i].weight)],
                        1, Len(results)),
               RSumOver([i \in 1..Len(results) |-> results[i].weight], 1, Len(results)))

\* mutant of HeadlinesSummary: the summary follows the sign of the score
HeadlinesSummary_BySign(avgScore, allTriggers) ==
  IF RLt(R(0), avgScore)
    THEN Summary("Bullish for Gold: ",
                 SliceFirst(SelectSeq(allTriggers, LAMBDA t : t.sign = "+"), 3))
  ELSE IF RLt(avgScore, R(0))
    THEN Summary("Bearish for Gold: ",
                 SliceFirst(SelectSeq(allTriggers, LAMBDA t : t.sign = "-"), 3))
  ELSE IF Len(allTriggers) > 0 THEN Summary("Mixed signals - neutral stance", <<>>)
  ELSE Summary("Neutral sentiment", <<>>)

\* the summary line of an analysis
HeadlinesSummary(avgScore, allTriggers) ==
  IF RLt(SUMMARY_THRESHOLD, avgScore)
    THEN Summary("Bullish for Gold: ",
                 SliceFirst(SelectSeq(allTriggers, LAMBDA t : t.sign = "+"), 3))
  ELSE IF RLt(avgScore, RSub(R(0), SUMMARY_THRESHOLD))
    THEN Summary("Bearish for Gold: ",
                 SliceFirst(SelectSeq(allTriggers, LAMBDA t : t.sign = "-"), 3))
  ELSE IF Len(allTriggers) > 0 THEN Summary("Mixed signals - neutral stance", <<>>)
  ELSE Summary("Neutral sentiment", <<>>)

HeadlinesResult(headlines, now, avgScore, allTriggers) ==
  [score |-> avgScore,
   adjustmentPercent |-> RMul(avgScore, R(3)),
   confidence |-> RMin(R(1), RNorm(Len(allTriggers), Len(headlines) * 2)),
   triggerWords |-> SliceFirst(Dedupe(allTriggers, <<>>), 10),
   summary |-> HeadlinesSummary(avgScore, allTriggers),
   headlines |-> SliceFirst(headlines, 10), lastUpdated |-> now]

HeadlinesResultOf(headlines, now, results) ==
  HeadlinesResult(headlines, now, HeadlinesAverageScore(results), FlattenTriggers(results))

\* now: the value of new Date() when the analysis runs
analyzeHeadlines(headlines, now) ==
  IF Len(headlines) = 0
    THEN [score |-> R(0), adjustmentPercent |-> R(0), confidence |-> R(0),
          triggerWords |-> <<>>, summary |-> Summary("No headlines to analyze", <<>>),
          headlines |-> <<>>, lastUpdated |-> now]
    ELSE HeadlinesResultOf(headlines, now, HeadlineResults(headlines))

\* mutant of getFallbackSentiment: the cached result is returned as it is
getFallbackSentiment_NoHalving(cached, now) ==
  IF cached # Null
    THEN Val(cached)
    ELSE [score |-> R(0), adjustmentPercent |-> R(0), confidence |-> R(0),
          triggerWords |-> <<>>, summary |-> EmptySummary,
          headlines |-> <<>>, lastUpdated |-> now]

\* getFallbackSentiment, reading the cache
getFallbackSentiment(cached, now) ==
  IF cached # Null
    THEN [Val(cached) EXCEPT !.confidence = RMul(Val(cached).confidence, <<1, 2>>)]
    ELSE [score |-> R(0), adjustmentPercent |-> R(0), confidence |-> R(0),
          triggerWords |-> <<>>, summary |-> EmptySummary,
          headlines |-> <<>>, lastUpdated |-> now]

\* The headlines fetchAndAnalyzeSentiment keeps of a response's articles
MIN_TITLE_LENGTH == 10

SurvivingHeadlines(articles) ==
  LET kept == SelectSeq(articles, LAMBDA a : a.title # Null /\ Len(Val(a.title)) > MIN_TITLE_LENGTH)
  IN  SliceFirst([i \in 1..Len(kept) |-> Val(kept[i].title)], 30)

(***************************************************************************)
(* Headlines and article payloads the news endpoint can answer with        *)
(***************************************************************************)
\* "Gold Rally amid war fears" (25 characters)
H_War == <<"G", "o", "l", "d", " ", "R", "a", "l", "l", "y", " ", "a", "m", "i", "d", " ", "w", "a", "r", " ", "f", "e", "a", "r", "s">>
\* "ceasefire reached, dollar strength continues" (44 characters)
H_Ceasefire == <<"c", "e", "a", "s", "e", "f", "i", "r", "e", " ", "r", "e", "a", "c", "h", "e", "d", ",", " ", "d", "o", "l", "l", "a", "r", " ", "s", "t", "r", "e", "n", "g", "t", "h", " ", "c", "o", "n", "t", "i", "n", "u", "e", "s">>
\* "fed pause expected soon" (23 characters)
H_FedPause == <<"f", "e", "d", " ", "p", "a", "u", "s", "e", " ", "e", "x", "p", "e", "c", "t", "e", "d", " ", "s", "o", "o", "n">>
\* "markets quiet today" (19 characters)
H_Quiet == <<"m", "a", "r", "k", "e", "t", "s", " ", "q", "u", "i", "e", "t", " ", "t", "o", "d", "a", "y">>
\* "rate cut!!" (10 characters)
H_Len10 == <<"r", "a", "t", "e", " ", "c", "u", "t", "!", "!">>
\* "rate cut!!!" (11 characters)
H_Len11 == <<"r", "a", "t", "e", " ", "c", "u", "t", "!", "!", "!">>
\* "gold up" (7 characters)
H_Short == <<"g", "o", "l", "d", " ", "u", "p">>

Article(title) == [title |-> Some(title)]
UntitledArticle == [title |-> Null]

\* kind as for the price providers; articles is data?.articles (null if absent)
NewsOk(articles) == [kind |-> "ok", articles |-> articles]

NEWS_War == NewsOk(Some(<<Article(H_War)>>))
NEWS_Ceasefire == NewsOk(Some(<<Article(H_Ceasefire), Article(H_Short)>>))
NEWS_LowConfidence == NewsOk(Some(<<Article(H_FedPause), Article(H_Quiet)>>))
NEWS_NoneSurvive == NewsOk(Some(<<Article(H_Short), UntitledArticle, Article(H_Len10)>>))
NEWS_NoArticles == NewsOk(Null)

NewsResponses ==
  {NEWS_War, NEWS_Ceasefire, NEWS_LowConfidence, NEWS_NoneSurvive, NEWS_NoArticles,
   HttpNotOk, NetworkError}

(***************************************************************************)
(* State                                                                   *)
(***************************************************************************)
VARIABLES
  \* news-sentiment.ts: the module-level cache, the clock, and the calls of
  \* fetchAndAnalyzeSentiment in progress or returned
  cachedSentiment, cacheTimestamp, clock, sentimentCalls,
  \* market/index.ts: the per-key success cache, the one circuit breaker, the
  \* clock, the calls of fetchMultipleStocks, and (history) the consecutive
  \* failures of each request key
  lastSuccessfulByKey, stockBreaker, marketNow, marketCalls, keyFailures,
  \* GoldPriceChart: the fields of one instance
  state, currentTimeRange, globalSlope, refreshInterval, resizeObserver,
  destroyCleanup,
  \* what chartContainer shows, and whether the rendered DOM is in the container
  chartContainer, attached,
  \* init(): where it stands, the two fetches it awaits together, the refresh
  \* it awaits
  initPc, initAwait, initSlot,
  \* the calls of fetchData in flight, the fetchSentiment calls they left
  \* running, and the number of fetchData calls so far
  refreshes, sentimentFetches, started,
  \* (history) destroy() has returned; the time ranges under which a refresh
  \* began and succeeded
  destroyed, succeededRanges,
  \* (history) the time range state.data was requested for and the one whose
  \* cutoff it was filtered with
  dataOrigin,
  \* the last direct call of one of the module's functions: its name, its
  \* arguments and what it returned
  applied

sentimentVars == <<cachedSentiment, cacheTimestamp, clock, sentimentCalls>>

marketVars == <<lastSuccessfulByKey, stockBreaker, marketNow, marketCalls, keyFailures>>

lifecycleVars == <<refreshInterval, resizeObserver, destroyCleanup, attached, destroyed>>

initVars == <<initPc, initAwait, initSlot>>

chartVars ==
  <<state, currentTimeRange, globalSlope, chartContainer, refreshes, sentimentFetches,
    started, succeededRanges, dataOrigin, lifecycleVars, initVars>>

vars == <<sentimentVars, marketVars, chartVars, applied>>

\* what the steps of one component leave alone
otherThanSentiment == <<marketVars, chartVars, applied>>
otherThanMarket == <<sentimentVars, chartVars, applied>>
otherThanChart == <<sentimentVars, marketVars, applied>>
otherThanApplied == <<sentimentVars, marketVars, chartVars>>

(***************************************************************************)
(* The sentiment service: fetchAndAnalyzeSentiment and its cache           *)
(***************************************************************************)
CACHE_TTL == 5 * 60 * 1000

\* the clock advances in steps of one minute, MaxTicks times
TickMs == 60 * 1000
MaxTicks == 7
\* concurrent callers of fetchAndAnalyzeSentiment
MaxCallers == 2
Callers == 1..MaxCallers

\* a call: pc is "idle", "fetching" (awaiting the news endpoint) or "returned";
\* result is what the promise resolved with; network tells whether the call
\* issued a request
IdleCall == [pc |-> "idle", result |-> Null, network |-> FALSE]

SentimentInit ==
  /\ cachedSentiment = Null
  /\ cacheTimestamp = 0
  /\ clock = NowMs
  /\ sentimentCalls = [c \in Callers |-> IdleCall]

\* mutant of CacheFresh: an entry exactly CACHE_TTL old still counts as fresh
CacheFresh_Inclusive(cached, timestamp, now) ==
  cached # Null /\ now - timestamp <= CACHE_TTL

\* the cache check at the head of fetchAndAnalyzeSentiment
CacheFresh(cached, timestamp, now) == cached # Null /\ now - timestamp < CACHE_TTL

\* fetchAndAnalyzeSentiment up to its first await
SentimentCall(c) ==
  /\ sentimentCalls[c].pc \in {"idle", "returned"}
  /\ sentimentCalls' =
       [sentimentCalls EXCEPT ![c] =
          IF CacheFresh(cachedSentiment, cacheTimestamp, clock)
            THEN [pc |-> "returned", result |-> cachedSentiment, network |-> FALSE]
            ELSE [pc |-> "fetching", result |-> Null, network |-> TRUE]]
  /\ UNCHANGED <<cachedSentiment, cacheTimestamp, clock>>
  /\ UNCHANGED otherThanSentiment

\* the headlines fetchAndAnalyzeSentiment keeps of an ok response
ResponseHeadlines(resp) ==
  SurvivingHeadlines(IF resp.articles = Null THEN <<>> ELSE Val(resp.articles))

\* ResponseHeadlines and analyzeHeadlines tabulated over the responses of the
\* model (the analysis depends on the time only through lastUpdated)
HeadlinesOf ==
  [resp \in {r \in NewsResponses : r.kind = "ok"} |-> ResponseHeadlines(resp)]
AnalysisOf ==
  [resp \in {r \in NewsResponses : r.kind = "ok"} |-> analyzeHeadlines(HeadlinesOf[resp], 0)]

\* whether a response makes fetchAndAnalyzeSentiment store a new analysis
StoresAnalysis(resp) == resp.kind = "ok" /\ Len(HeadlinesOf[resp]) > 0

\* analyzeHeadlines(headlines) run at time now on the headlines of resp
AnalyzeResponse(resp, now) == [AnalysisOf[resp] EXCEPT !.lastUpdated = now]

\* mutant of SentimentRespond: the fallback result is written to the cache
SentimentRespond_StoresFallback(c, resp) ==
  /\ sentimentCalls[c].pc = "fetching"
  /\ IF StoresAnalysis(resp)
       THEN LET result == AnalyzeResponse(resp, clock)
            IN  /\ cachedSentiment' = Some(result)
                /\ cacheTimestamp' = clock
                /\ sentimentCalls' =
                     [sentimentCalls EXCEPT ![c].pc = "returned", ![c].result = Some(result)]
       ELSE /\ sentimentCalls' =
                 [sentimentCalls EXCEPT
                    ![c].pc = "returned",
                    ![c].result = Some(getFallbackSentiment(cachedSentiment, clock))]
            /\ cachedSentiment' =
                 IF cachedSentiment = Null THEN Null
                 ELSE Some(getFallbackSentiment(cachedSentiment, clock))
            /\ UNCHANGED cacheTimestamp
  /\ UNCHANGED clock
  /\ UNCHANGED otherThanSentiment

\* the rest of fetchAndAnalyzeSentiment, once the endpoint has answered
SentimentRespond(c, resp) ==
  /\ sentimentCalls[c].pc = "fetching"
  /\ IF StoresAnalysis(resp)
       THEN LET result == AnalyzeResponse(resp, clock)
            IN  /\ cachedSentiment' = Some(result)
                /\ cacheTimestamp' = clock
                /\ sentimentCalls' =
                     [sentimentCalls EXCEPT ![c].pc = "returned", ![c].result = Some(result)]
       ELSE /\ sentimentCalls' =
                 [sentimentCalls EXCEPT
                    ![c].pc = "returned",
                    ![c].result = Some(getFallbackSentiment(cachedSentiment, clock))]
            /\ UNCHANGED <<cachedSentiment, cacheTimestamp>>
  /\ UNCHANGED clock
  /\ UNCHANGED otherThanSentiment

\* AbortSignal.timeout(10000) fires: the catch block answers
SentimentTimeout(c) ==
  /\ sentimentCalls[c].pc = "fetching"
  /\ sentimentCalls' =
       [sentimentCalls EXCEPT
          ![c].pc = "returned",
          ![c].result = Some(getFallbackSentiment(cachedSentiment, clock))]
  /\ UNCHANGED <<cachedSentiment, cacheTimestamp, clock>>
  /\ UNCHANGED otherThanSentiment

\* mutant of clearSentimentCache: the timestamp is left as it was
clearSentimentCache_KeepsTimestamp ==
  /\ cachedSentiment # Null
  /\ cachedSentiment' = Null
  /\ UNCHANGED <<cacheTimestamp, clock, sentimentCalls>>
  /\ UNCHANGED otherThanSentiment

clearSentimentCache ==
  /\ cachedSentiment # Null
  /\ cachedSentiment' = Null
  /\ cacheTimestamp' = 0
  /\ UNCHANGED <<clock, sentimentCalls>>
  /\ UNCHANGED otherThanSentiment

\* One minute passes.  A request is answered or aborted within 10 seconds, so
\* no request is pending across a tick.
SentimentTick ==
  /\ clock + TickMs <= NowMs + MaxTicks * TickMs
  /\ \A c \in Callers : sentimentCalls[c].pc # "fetching"
  /\ clock' = clock + TickMs
  /\ UNCHANGED <<cachedSentiment, cacheTimestamp, sentimentCalls>>
  /\ UNCHANGED otherThanSentiment

SentimentNext ==
  \/ \E c \in Callers : SentimentCall(c)
  \/ \E c \in Callers, resp \in NewsResponses : SentimentRespond(c, resp)
  \/ \E c \in Callers : SentimentTimeout(c)
  \/ clearSentimentCache
  \/ SentimentTick

(***************************************************************************)
(* The market service: fetchMultipleStocks, its cache and circuit breaker  *)
(***************************************************************************)
\* the symbols of the model: gold has an entry in MOCK_DATA, bitcoin has none
GOLD == "GC=F"
BTC == "BTC-USD"

\* the requested symbols, each with its name and display
SymbolMeta(symbol) ==
  IF symbol = GOLD
    THEN [symbol |-> GOLD, name |-> "Gold Futures", display |-> "XAU"]
    ELSE [symbol |-> BTC, name |-> "Bitcoin", display |-> "BTC"]

\* the argument lists of fetchMultipleStocks: two single symbols and one pair in
\* both orders
Requests ==
  { <<SymbolMeta(GOLD)>>, <<SymbolMeta(BTC)>>,
    <<SymbolMeta(GOLD), SymbolMeta(BTC)>>, <<SymbolMeta(BTC), SymbolMeta(GOLD)>> }

\* the order of Array.prototype.sort on the symbols of the model ("B" < "G")
SymbolRank(symbol) == IF symbol = BTC THEN 1 ELSE 2

RECURSIVE InsertSymbol(_, _)
InsertSymbol(sorted, symbol) ==
  IF sorted = <<>> THEN <<symbol>>
  ELSE IF SymbolRank(symbol) < SymbolRank(Head(sorted))
         THEN <<symbol>> \o sorted
         ELSE <<Head(sorted)>> \o InsertSymbol(Tail(sorted), symbol)

RECURSIVE SortSymbols(_)
SortSymbols(symbols) ==
  IF symbols = <<>> THEN <<>>
  ELSE InsertSymbol(SortSymbols(SubSeq(symbols, 1, Len(symbols) - 1)),
                    symbols[Len(symbols)])

\* symbolSetKey: the sorted symbols joined with commas, kept as the sorted
\* sequence (no symbol of the model contains a comma)
symbolSetKey(symbols) == SortSymbols(symbols)

AllSymbolStrings(request) == [i \in 1..Len(request) |-> request[i].symbol]

Keys == { symbolSetKey(AllSymbolStrings(request)) : request \in Requests }

\* a quote of the response
ProtoQuote(symbol, name, display, price, change, sparkline) ==
  [symbol |-> symbol, name |-> name, display |-> display,
   price |-> price, change |-> change, sparkline |-> sparkline]

\* a || b on strings
OrElse(a, b) == IF a # "" THEN a ELSE b

toMarketData(proto, meta) ==
  [symbol |-> proto.symbol,
   name |-> OrElse(IF meta = Null THEN "" ELSE Val(meta).name, proto.name),
   display |-> OrElse(IF meta = Null THEN "" ELSE Val(meta).display,
                      OrElse(proto.display, proto.symbol)),
   price |-> proto.price,
   change |-> proto.change,
   sparkline |-> IF Len(proto.sparkline) > 0 THEN Some(proto.sparkline) ELSE Null]

\* MOCK_DATA, as far as the symbols of the model go
HasMock(symbol) == symbol = GOLD
MOCK_DATA(symbol) ==
  [symbol |-> GOLD, name |-> "Gold", display |-> "GOLD",
   price |-> Some(<<10407, 2>>), change |-> Some(<<-43, 100>>),
   sparkline |-> Some(<<R(5180), R(5195), R(5210), R(5215), <<10407, 2>>>>)]

emptyStockFallback == [quotes |-> <<>>, finnhubSkipped |-> FALSE, skipReason |-> ""]

ListMarketQuotesResponse(quotes) ==
  [quotes |-> quotes, finnhubSkipped |-> FALSE, skipReason |-> ""]

\* responses of listMarketQuotes
GoldQuote == ProtoQuote(GOLD, "Gold", "", Some(R(5100)), Some(<<1, 2>>), <<R(5090), R(5100)>>)
GoldQuoteNoPrice == ProtoQuote(GOLD, "Gold", "", Null, Null, <<>>)
BtcQuote == ProtoQuote(BTC, "Bitcoin USD", "", Some(R(97000)), Null, <<>>)
SilverQuote == ProtoQuote("SI=F", "Silver", "SILVER", Some(R(87)), Null, <<>>)

QuoteResponses ==
  { ListMarketQuotesResponse(<<>>),
    ListMarketQuotesResponse(<<GoldQuote>>),
    ListMarketQuotesResponse(<<GoldQuoteNoPrice>>),
    ListMarketQuotesResponse(<<BtcQuote, GoldQuote>>),
    ListMarketQuotesResponse(<<SilverQuote, BtcQuote>>) }

\* resp.quotes filtered to the requested symbols and converted
RequestedResults(request, resp) ==
  LET wanted == { request[i].symbol : i \in 1..Len(request) }
      kept == SelectSeq(resp.quotes, LAMBDA q : q.symbol \in wanted)
  IN  [i \in 1..Len(kept) |-> toMarketData(kept[i], Some(SymbolMeta(kept[i].symbol)))]

\* the mock results of a request: the mocks of its symbols, renamed
MockResults(request) ==
  LET mocked == SelectSeq(request, LAMBDA sym : HasMock(sym.symbol))
  IN  [i \in 1..Len(mocked) |->
         [MOCK_DATA(mocked[i].symbol) EXCEPT
            !.name = mocked[i].name, !.display = mocked[i].display]]

HasValidPrice(data) == \E i \in 1..Len(data) : data[i].price # Null

\* the cache after the try block of fetchMultipleStocks has seen results
CacheAfter(cache, setKey, results) ==
  IF Len(results) > 0 THEN [cache EXCEPT ![setKey] = Some(results)] ELSE cache

\* what the try block of fetchMultipleStocks returns for results, reading the
\* cache it has just updated
TryBlockData(cache, request, setKey, results) ==
  LET data == IF Len(results) > 0 THEN results
              ELSE IF cache[setKey] # Null THEN Val(cache[setKey]) ELSE <<>>
  IN  IF (Len(data) = 0 \/ ~HasValidPrice(data)) /\ Len(MockResults(request)) > 0
        THEN MockResults(request)
        ELSE data

\* what the catch block of fetchMultipleStocks returns
CatchBlockData(cache, request, setKey) ==
  IF Len(MockResults(request)) > 0 THEN MockResults(request)
  ELSE IF cache[setKey] # Null THEN Val(cache[setKey]) ELSE <<>>

\* The circuit breaker.  Consecutive failures reaching BREAKER_THRESHOLD open
\* it; while it is open and the cool-down has not elapsed, execute answers its
\* default value without running the request.
BREAKER_THRESHOLD == 2
BREAKER_COOLDOWN_MS == 2 * 60 * 1000

ClosedBreaker == [failures |-> 0, openedAt |-> 0]

BreakerOpen(breaker, now) ==
  breaker.failures >= BREAKER_THRESHOLD /\ now - breaker.openedAt < BREAKER_COOLDOWN_MS

BreakerAfterFailure(breaker, now) ==
  IF breaker.failures + 1 >= BREAKER_THRESHOLD
    THEN [failures |-> BREAKER_THRESHOLD, openedAt |-> now]
    ELSE [failures |-> breaker.failures + 1, openedAt |-> 0]

MaxMarketTicks == 3
MaxMarketCalls == 1
MarketCallers == 1..MaxMarketCalls

\* a call: pc is "idle", "awaiting" (the request is out) or "returned"; request
\* is its argument, data what it returned, shortCircuited whether the breaker
\* answered without a request
IdleMarketCall == [pc |-> "idle", request |-> <<>>, data |-> <<>>, shortCircuited |-> FALSE]

MarketInit ==
  /\ lastSuccessfulByKey = [k \in Keys |-> Null]
  /\ stockBreaker = ClosedBreaker
  /\ marketNow = NowMs
  /\ marketCalls = [c \in MarketCallers |-> IdleMarketCall]
  /\ keyFailures = [k \in Keys |-> 0]

SetKeyOf(request) == symbolSetKey(AllSymbolStrings(request))

\* the try block from the point where execute has answered with resp
MarketContinue(c, request, resp, shortCircuited) ==
  LET setKey == SetKeyOf(request)
      results == RequestedResults(request, resp)
      cache == CacheAfter(lastSuccessfulByKey, setKey, results)
  IN  /\ lastSuccessfulByKey' = cache
      /\ marketCalls' =
           [marketCalls EXCEPT ![c] =
              [pc |-> "returned", request |-> request,
               data |-> TryBlockData(cache, request, setKey, results),
               shortCircuited |-> shortCircuited]]

\* fetchMultipleStocks up to the await of stockBreaker.execute; an open breaker
\* answers emptyStockFallback at once
MarketCall(c, request) ==
  /\ marketCalls[c].pc \in {"idle", "returned"}
  /\ IF BreakerOpen(stockBreaker, marketNow)
       THEN MarketContinue(c, request, emptyStockFallback, TRUE)
       ELSE /\ marketCalls' =
                 [marketCalls EXCEPT ![c] =
                    [pc |-> "awaiting", request |-> request, data |-> <<>>,
                     shortCircuited |-> FALSE]]
            /\ UNCHANGED lastSuccessfulByKey
  /\ UNCHANGED <<stockBreaker, marketNow, keyFailures>>
  /\ UNCHANGED otherThanMarket

\* listMarketQuotes answers: the breaker records a success
MarketRespond(c, resp) ==
  /\ marketCalls[c].pc = "awaiting"
  /\ MarketContinue(c, marketCalls[c].request, resp, FALSE)
  /\ stockBreaker' = ClosedBreaker
  /\ keyFailures' = [keyFailures EXCEPT ![SetKeyOf(marketCalls[c].request)] = 0]
  /\ UNCHANGED marketNow
  /\ UNCHANGED otherThanMarket

\* listMarketQuotes rejects and execute answers its default value
MarketFailDefault(c) ==
  /\ marketCalls[c].pc = "awaiting"
  /\ MarketContinue(c, marketCalls[c].request, emptyStockFallback, FALSE)
  /\ stockBreaker' = BreakerAfterFailure(stockBreaker, marketNow)
  /\ keyFailures' =
       [keyFailures EXCEPT ![SetKeyOf(marketCalls[c].request)] =
          MinOf(@ + 1, BREAKER_THRESHOLD)]
  /\ UNCHANGED marketNow
  /\ UNCHANGED otherThanMarket

\* listMarketQuotes rejects and execute rejects too: the catch block answers
MarketFailThrow(c) ==
  /\ marketCalls[c].pc = "awaiting"
  /\ LET request == marketCalls[c].request
     IN  marketCalls' =
           [marketCalls EXCEPT ![c] =
              [pc |-> "returned", request |-> request,
               data |-> CatchBlockData(lastSuccessfulByKey, request, SetKeyOf(request)),
               shortCircuited |-> FALSE]]
  /\ stockBreaker' = BreakerAfterFailure(stockBreaker, marketNow)
  /\ keyFailures' =
       [keyFailures EXCEPT ![SetKeyOf(marketCalls[c].request)] =
          MinOf(@ + 1, BREAKER_THRESHOLD)]
  /\ UNCHANGED <<lastSuccessfulByKey, marketNow>>
  /\ UNCHANGED otherThanMarket

\* one minute passes
MarketTick ==
  /\ marketNow + TickMs <= NowMs + MaxMarketTicks * TickMs
  /\ marketNow' = marketNow + TickMs
  /\ UNCHANGED <<lastSuccessfulByKey, stockBreaker, marketCalls, keyFailures>>
  /\ UNCHANGED otherThanMarket

MarketNext ==
  \/ \E c \in MarketCallers, request \in Requests : MarketCall(c, request)
  \/ \E c \in MarketCallers, resp \in QuoteResponses : MarketRespond(c, resp)
  \/ \E c \in MarketCallers : MarketFailDefault(c)
  \/ \E c \in MarketCallers : MarketFailThrow(c)
  \/ MarketTick

(***************************************************************************)
(* GoldPriceChart: init, fetchData, the timer, the handlers, destroy       *)
(***************************************************************************)
\* fetchData calls that may overlap, and fetchData calls in one run
MaxRefreshes == 2
MaxFetches == 2
Slots == 1..MaxRefreshes

\* the time ranges the buttons and setTimeRange select in the runs explored
SelectableRanges == {"1h", "6h"}

\* what fetchAndAnalyzeSentiment resolves with (it never rejects): an analysis
\* with confidence above the gate
ChartSentiments == { AnalyzeResponse(NEWS_War, NowMs) }

\* the constructor's state
InitialState ==
  [currentPrice |-> Null, previousClose |-> Null, change |-> Null,
   changePercent |-> Null, trend |-> "neutral", data |-> <<>>, lastUpdated |-> Null,
   error |-> Null, loading |-> TRUE, quickStats |-> Null, prediction |-> Null,
   sentiment |-> Null, dataSource |-> "xaut"]

\* a fetchData call: pc is "idle", or the request it awaits: "primary",
\* "secondary", "qsPrimary", "qsFallback"; tf is the time range selected when
\* fetchData was called and priorSuccess whether a refresh for that time range
\* had succeeded by then; yahooTf is the time range fetchFromYahooFinance read
\* before its request; secCalls counts the calls of fetchFromYahooFinance in
\* this refresh; slopeDone is whether fetchGlobalSlope had already finished
\* when fetchData was called; before holds, until a provider's series is
\* stored, what state showed when fetchData was called
IdleRefresh ==
  [pc |-> "idle", tf |-> Null, priorSuccess |-> FALSE, yahooTf |-> Null, secCalls |-> 0,
   slopeDone |-> FALSE, before |-> Null]

\* the fields of state that show a fetched series and what is derived from it
Shown(st) ==
  [data |-> st.data, dataSource |-> st.dataSource, prediction |-> st.prediction,
   quickStats |-> st.quickStats, trend |-> st.trend]

ChartInit ==
  /\ state = InitialState
  /\ currentTimeRange = "1h"
  /\ globalSlope = R(0)
  /\ refreshInterval = "none"
  /\ resizeObserver = "none"
  /\ destroyCleanup = <<>>
  /\ chartContainer = "blank"
  /\ attached = FALSE
  /\ initPc = "new"
  /\ initAwait = [globalSlope |-> "idle", sentiment |-> "idle"]
  /\ initSlot = 0
  /\ refreshes = [s \in Slots |-> IdleRefresh]
  /\ sentimentFetches = 0
  /\ started = 0
  /\ destroyed = FALSE
  /\ succeededRanges = {}
  /\ dataOrigin = [requested |-> Null, cutoff |-> Null]

IdleSlots == { s \in Slots : refreshes[s].pc = "idle" }
FreeSlot == CHOOSE s \in IdleSlots : \A t \in IdleSlots : s <= t

\* fetchData up to its first await, called with the state st: loading view,
\* fetchSentiment left running, request to the primary provider sent; the
\* caller has set the time range (currentTimeRange') before the call
fetchData(st) ==
  /\ started < MaxFetches
  /\ IdleSlots # {}
  /\ started' = started + 1
  /\ state' = [st EXCEPT !.loading = TRUE, !.error = Null]
  /\ chartContainer' = "loading"
  /\ sentimentFetches' = sentimentFetches + 1
  /\ refreshes' = [refreshes EXCEPT ![FreeSlot] =
       [IdleRefresh EXCEPT !.pc = "primary", !.tf = Some(currentTimeRange'),
                           !.priorSuccess = currentTimeRange' \in succeededRanges,
                           !.slopeDone = (initAwait.globalSlope = "done"),
                           !.before = Some(Shown(st))]]

\* init(): render, then fetchGlobalSlope and fetchSentiment together
InitStart ==
  /\ initPc = "new"
  /\ initPc' = "awaitAll"
  /\ initAwait' = [globalSlope |-> "pending", sentiment |-> "pending"]
  /\ chartContainer' = "blank"
  /\ attached' = TRUE
  /\ UNCHANGED <<state, currentTimeRange, globalSlope, refreshes, sentimentFetches,
                 started, succeededRanges, dataOrigin, refreshInterval, resizeObserver,
                 destroyCleanup, destroyed, initSlot>>
  /\ UNCHANGED otherThanChart

\* the closes fetchGlobalSlope keeps
GlobalSlopePrices(resp) ==
  IF YahooThrows(resp) THEN <<>>
  ELSE LET ts == Val(Val(resp.result).timestamp)
           quote == Val(Val(resp.result).quote)
           closes == [i \in 1..Len(ts) |-> YahooField(quote, "close", i)]
       IN  SelectSeq(closes, LAMBDA c : c > 0)

\* the slope fetchGlobalSlope computes from resp, tabulated over the responses of
\* the model (R(0) where it stores none)
GlobalSlopeOf ==
  [resp \in GlobalSlopeResponses |->
     IF Len(GlobalSlopePrices(resp)) < 20 THEN R(0)
     ELSE linearRegression(GlobalSlopePrices(resp)).slope]
StoresGlobalSlope ==
  [resp \in GlobalSlopeResponses |-> Len(GlobalSlopePrices(resp)) >= 20]

\* this.globalSlope after fetchGlobalSlope has seen resp
GlobalSlopeAfter(old, resp) ==
  IF StoresGlobalSlope[resp] THEN GlobalSlopeOf[resp] ELSE old

\* fetchXautFromCoinGecko, fetchFromYahooFinance and the quick-stats windows,
\* tabulated over the responses of the model
XautOf ==
  [resp \in PrimaryResponses, tf \in TimeRanges |-> XautFromResponse(resp, tf)]
YahooThrowsOn == [resp \in SecondaryResponses |-> YahooThrows(resp)]
YahooSeriesOf ==
  [resp \in { r \in SecondaryResponses : ~YahooThrows(r) }, tf \in TimeRanges |->
     YahooSeries(resp, tf)]
QuickStatsPrimaryOf ==
  [resp \in QuickStatsPrimaryResponses |->
     IF Len(QuickStatsPrimaryWindow(resp)) = 0 THEN Null
     ELSE Some(ComputeQuickStats(QuickStatsPrimaryWindow(resp)))]
QuickStatsFallbackOf ==
  [resp \in QuickStatsFallbackResponses |->
     IF Len(QuickStatsFallbackWindow(resp)) = 0 THEN Null
     ELSE Some(ComputeQuickStats(QuickStatsFallbackWindow(resp)))]

\* init() past Promise.all: await this.fetchData()
InitFetchData(st) ==
  /\ fetchData(st)
  /\ initPc' = "awaitFetch"
  /\ initSlot' = FreeSlot

\* fetchGlobalSlope's request is answered
GlobalSlopeRespond(resp) ==
  /\ initPc = "awaitAll"
  /\ initAwait.globalSlope = "pending"
  /\ globalSlope' = GlobalSlopeAfter(globalSlope, resp)
  /\ initAwait' = [initAwait EXCEPT !.globalSlope = "done"]
  /\ UNCHANGED <<currentTimeRange, succeededRanges, dataOrigin, lifecycleVars>>
  /\ IF initAwait.sentiment = "done"
       THEN InitFetchData(state)
       ELSE UNCHANGED <<initPc, initSlot, state, chartContainer, sentimentFetches,
                        refreshes, started>>
  /\ UNCHANGED otherThanChart

\* init's fetchSentiment resolves
InitSentimentResolve(result) ==
  /\ initPc = "awaitAll"
  /\ initAwait.sentiment = "pending"
  /\ initAwait' = [initAwait EXCEPT !.sentiment = "done"]
  /\ UNCHANGED <<currentTimeRange, globalSlope, succeededRanges, dataOrigin, lifecycleVars>>
  /\ IF initAwait.globalSlope = "done"
       THEN InitFetchData([state EXCEPT !.sentiment = Some(result)])
       ELSE /\ state' = [state EXCEPT !.sentiment = Some(result)]
            /\ UNCHANGED <<initPc, initSlot, chartContainer, sentimentFetches,
                           refreshes, started>>
  /\ UNCHANGED otherThanChart

\* a fetchSentiment left running by fetchData resolves
SentimentResolve(result) ==
  /\ sentimentFetches > 0
  /\ sentimentFetches' = sentimentFetches - 1
  /\ state' = [state EXCEPT !.sentiment = Some(result)]
  /\ UNCHANGED <<currentTimeRange, globalSlope, chartContainer, refreshes, started,
                 succeededRanges, dataOrigin, lifecycleVars, initVars>>
  /\ UNCHANGED otherThanChart

\* init() after its fetchData has settled: startAutoRefresh, setupResizeObserver
InitContinues(s) ==
  IF initPc = "awaitFetch" /\ initSlot = s
    THEN /\ initPc' = "done"
         /\ initSlot' = 0
         /\ refreshInterval' = "running"
         /\ resizeObserver' = "observing"
         /\ destroyCleanup' = destroyCleanup \o <<"timer", "resize">>
         /\ UNCHANGED <<initAwait, attached, destroyed>>
    ELSE UNCHANGED <<lifecycleVars, initVars>>

\* fetchData's call of fetchFromYahooFinance, up to its await
CallSecondary(s) ==
  /\ refreshes' = [refreshes EXCEPT ![s] =
       [refreshes[s] EXCEPT !.pc = "secondary", !.yahooTf = Some(currentTimeRange),
                            !.secCalls = refreshes[s].secCalls + 1]]
  /\ UNCHANGED <<state, chartContainer, succeededRanges, dataOrigin, lifecycleVars, initVars>>

\* fetchData once fetchXautFromCoinGecko has returned xautData
AfterPrimary(s, xautData) ==
  IF PrimaryAccepted(xautData)
    THEN /\ state' = [state EXCEPT !.data = Val(xautData), !.dataSource = "xaut"]
         /\ dataOrigin' = [requested |-> refreshes[s].tf, cutoff |-> Some(currentTimeRange)]
         /\ refreshes' = [refreshes EXCEPT ![s].pc = "qsPrimary", ![s].before = Null]
         /\ UNCHANGED <<chartContainer, succeededRanges, lifecycleVars, initVars>>
    ELSE CallSecondary(s)

\* the primary provider answers
PrimaryRespond(s, resp) ==
  /\ refreshes[s].pc = "primary"
  /\ AfterPrimary(s, XautOf[resp, currentTimeRange])
  /\ UNCHANGED <<currentTimeRange, globalSlope, sentimentFetches, started>>
  /\ UNCHANGED otherThanChart

\* AbortSignal.timeout(10000) cuts the primary request off
PrimaryTimeout(s) ==
  /\ refreshes[s].pc = "primary"
  /\ AfterPrimary(s, Null)
  /\ UNCHANGED <<currentTimeRange, globalSlope, sentimentFetches, started>>
  /\ UNCHANGED otherThanChart

\* the message of the error fetchFromYahooFinance throws
YahooError(resp) ==
  IF resp.kind = "notok" THEN "HTTP error"
  ELSE IF resp.kind = "throw" THEN "Failed to fetch"
  ELSE "No price data available"

\* the secondary provider answers: fetchFromYahooFinance stores its series, or
\* throws into fetchData's catch block
SecondaryRespond(s, resp) ==
  /\ refreshes[s].pc = "secondary"
  /\ IF YahooThrowsOn[resp]
       THEN /\ state' = [state EXCEPT !.loading = FALSE, !.error = Some(YahooError(resp))]
            /\ chartContainer' = "error"
            /\ UNCHANGED dataOrigin
            /\ refreshes' = [refreshes EXCEPT ![s] = IdleRefresh]
            /\ InitContinues(s)
       ELSE /\ state' = [state EXCEPT
                           !.data = YahooSeriesOf[resp, Val(refreshes[s].yahooTf)],
                           !.dataSource = "yahoo"]
            /\ dataOrigin' = [requested |-> refreshes[s].yahooTf, cutoff |-> refreshes[s].yahooTf]
            /\ refreshes' = [refreshes EXCEPT ![s].pc = "qsPrimary", ![s].yahooTf = Null,
                                              ![s].before = Null]
            /\ UNCHANGED <<chartContainer, lifecycleVars, initVars>>
  /\ UNCHANGED <<currentTimeRange, globalSlope, sentimentFetches, started, succeededRanges>>
  /\ UNCHANGED otherThanChart

\* the series, global slopes and sentiments a refresh of the model can hold, and
\* calculatePrediction tabulated over them
ChartSeries ==
  { Val(XautOf[resp, tf]) :
      resp \in { r \in PrimaryResponses : XautOf[r, "1h"] # Null }, tf \in TimeRanges }
  \cup
  { YahooSeriesOf[resp, tf] :
      resp \in { r \in SecondaryResponses : ~YahooThrows(r) }, tf \in TimeRanges }
GlobalSlopes == {R(0)} \cup { GlobalSlopeOf[resp] : resp \in GlobalSlopeResponses }
SentimentOptions == {Null} \cup { Some(result) : result \in ChartSentiments }
PredictionOf ==
  [data \in ChartSeries, tf \in TimeRanges, gSlope \in GlobalSlopes,
   sentiment \in SentimentOptions |-> calculatePrediction(data, tf, gSlope, sentiment)]

\* fetchData from the return of fetchQuickStats to its end, on the state st
FinishWithPrediction(s, st, prediction) ==
  /\ state' =
       [(IF Len(st.data) > 0
           THEN [st EXCEPT
                   !.currentPrice = Some(st.data[Len(st.data)].close),
                   !.previousClose = Some(st.data[1].open),
                   !.change = Some(st.data[Len(st.data)].close - st.data[1].open),
                   !.changePercent = Some(JsPercent(st.data[Len(st.data)].close - st.data[1].open,
                                                    st.data[1].open)),
                   !.prediction = prediction,
                   !.trend = IF prediction # Null THEN Val(prediction).trend ELSE "neutral"]
           ELSE st)
        EXCEPT !.lastUpdated = Some(NowMs), !.loading = FALSE, !.error = Null]
  /\ chartContainer' = IF Len(st.data) > 0 THEN "chart" ELSE chartContainer
  /\ refreshes' = [refreshes EXCEPT ![s] = IdleRefresh]
  /\ succeededRanges' =
       IF refreshes[s].tf = Some(currentTimeRange)
         THEN succeededRanges \cup {currentTimeRange} ELSE succeededRanges
  /\ UNCHANGED dataOrigin
  /\ InitContinues(s)

FinishFetchData(s, st) ==
  FinishWithPrediction(s, st, PredictionOf[st.data, currentTimeRange, globalSlope, st.sentiment])

\* state after fetchQuickStats, given the quick stats it computed (Null where
\* its window was empty and it returned early)
WithQuickStats(st, computed) ==
  IF computed = Null THEN st ELSE [st EXCEPT !.quickStats = computed]

\* the quick-stats primary request is answered
QsPrimaryRespond(s, resp) ==
  /\ refreshes[s].pc = "qsPrimary"
  /\ IF QuickStatsPrimaryOf[resp] = Null
       THEN /\ refreshes' = [refreshes EXCEPT ![s].pc = "qsFallback"]
            /\ UNCHANGED <<state, chartContainer, succeededRanges, dataOrigin, lifecycleVars, initVars>>
       ELSE FinishFetchData(s, WithQuickStats(state, QuickStatsPrimaryOf[resp]))
  /\ UNCHANGED <<currentTimeRange, globalSlope, sentimentFetches, started>>
  /\ UNCHANGED otherThanChart

\* AbortSignal.timeout(10000) cuts the quick-stats primary request off
QsPrimaryTimeout(s) ==
  /\ refreshes[s].pc = "qsPrimary"
  /\ refreshes' = [refreshes EXCEPT ![s].pc = "qsFallback"]
  /\ UNCHANGED <<state, chartContainer, succeededRanges, dataOrigin, lifecycleVars, initVars>>
  /\ UNCHANGED <<currentTimeRange, globalSlope, sentimentFetches, started>>
  /\ UNCHANGED otherThanChart

\* the quick-stats fallback request is answered
QsFallbackRespond(s, resp) ==
  /\ refreshes[s].pc = "qsFallback"
  /\ FinishFetchData(s, WithQuickStats(state, QuickStatsFallbackOf[resp]))
  /\ UNCHANGED <<currentTimeRange, globalSlope, sentimentFetches, started>>
  /\ UNCHANGED otherThanChart

\* the setInterval callback
TimerTick ==
  /\ refreshInterval = "running"
  /\ UNCHANGED currentTimeRange
  /\ fetchData(state)
  /\ UNCHANGED <<globalSlope, succeededRanges, dataOrigin, lifecycleVars, initVars>>
  /\ UNCHANGED otherThanChart

\* a click on a time range button
ClickTimeRange(range) ==
  /\ attached
  /\ range # currentTimeRange
  /\ currentTimeRange' = range
  /\ fetchData(state)
  /\ UNCHANGED <<globalSlope, succeededRanges, dataOrigin, lifecycleVars, initVars>>
  /\ UNCHANGED otherThanChart

\* setTimeRange(range), called by the owner of a live chart
setTimeRange(range) ==
  /\ initPc # "new"
  /\ ~destroyed
  /\ range # currentTimeRange
  /\ currentTimeRange' = range
  /\ fetchData(state)
  /\ UNCHANGED <<globalSlope, succeededRanges, dataOrigin, lifecycleVars, initVars>>
  /\ UNCHANGED otherThanChart

\* refresh(), called by the owner of a live chart
refresh ==
  /\ initPc # "new"
  /\ ~destroyed
  /\ UNCHANGED currentTimeRange
  /\ fetchData(state)
  /\ UNCHANGED <<globalSlope, succeededRanges, dataOrigin, lifecycleVars, initVars>>
  /\ UNCHANGED otherThanChart

\* a click on the retry button of the error view
RetryClick ==
  /\ attached
  /\ chartContainer = "error"
  /\ UNCHANGED currentTimeRange
  /\ fetchData(state)
  /\ UNCHANGED <<globalSlope, succeededRanges, dataOrigin, lifecycleVars, initVars>>
  /\ UNCHANGED otherThanChart

\* the ResizeObserver callback
ResizeObserved ==
  /\ resizeObserver = "observing"
  /\ ~state.loading
  /\ Len(state.data) > 0
  /\ chartContainer' = "chart"
  /\ UNCHANGED <<state, currentTimeRange, globalSlope, refreshes, sentimentFetches,
                 started, succeededRanges, dataOrigin, lifecycleVars, initVars>>
  /\ UNCHANGED otherThanChart

Registered(cleanup) == \E i \in 1..Len(destroyCleanup) : destroyCleanup[i] = cleanup

\* destroy(): the registered cleanups run, the container is emptied
destroy ==
  /\ initPc # "new"
  /\ ~destroyed
  /\ refreshInterval' =
       IF Registered("timer") /\ refreshInterval = "running" THEN "cleared"
       ELSE refreshInterval
  /\ resizeObserver' =
       IF Registered("resize") /\ resizeObserver = "observing" THEN "disconnected"
       ELSE resizeObserver
  /\ destroyCleanup' = <<>>
  /\ attached' = FALSE
  /\ destroyed' = TRUE
  /\ UNCHANGED <<state, currentTimeRange, globalSlope, chartContainer, refreshes,
                 sentimentFetches, started, succeededRanges, dataOrigin, initVars>>
  /\ UNCHANGED otherThanChart

Next ==
  \/ InitStart
  \/ \E resp \in GlobalSlopeResponses : GlobalSlopeRespond(resp)
  \/ \E result \in ChartSentiments : InitSentimentResolve(result)
  \/ \E result \in ChartSentiments : SentimentResolve(result)
  \/ \E s \in Slots, resp \in PrimaryResponses : PrimaryRespond(s, resp)
  \/ \E s \in Slots : PrimaryTimeout(s)
  \/ \E s \in Slots, resp \in SecondaryResponses : SecondaryRespond(s, resp)
  \/ \E s \in Slots, resp \in QuickStatsPrimaryResponses : QsPrimaryRespond(s, resp)
  \/ \E s \in Slots : QsPrimaryTimeout(s)
  \/ \E s \in Slots, resp \in QuickStatsFallbackResponses : QsFallbackRespond(s, resp)
  \/ TimerTick
  \/ \E range \in SelectableRanges : ClickTimeRange(range)
  \/ \E range \in SelectableRanges : setTimeRange(range)
  \/ refresh
  \/ RetryClick
  \/ ResizeObserved
  \/ destroy

(***************************************************************************)
(* Direct calls of the exported and module-level functions                 *)
(***************************************************************************)
NoCall == [fn |-> "none"]

AppliedInit == applied = NoCall

\* the headlines a batch is drawn from, and the longest batch
AllHeadlines == {H_War, H_Ceasefire, H_FedPause, H_Quiet, H_Len10, H_Len11, H_Short}
MaxBatch == 2
HeadlineBatches ==
  UNION { [1..n -> AllHeadlines] : n \in 0..MaxBatch }

\* analyzeHeadlines(headlines)
CallAnalyzeHeadlines(headlines) ==
  /\ applied = NoCall
  /\ applied' = [fn |-> "analyzeHeadlines", headlines |-> headlines,
                 result |-> analyzeHeadlines(headlines, NowMs)]
  /\ UNCHANGED otherThanApplied

\* series handed to calculatePrediction: lengths on both sides of its minimum,
\* falling, flat and rising closes
SeriesLengths == {0, 1, 9, 10, 11, 12}
SeriesIncrements == {-2, 0, 3}
PredictionSeries ==
  { [i \in 1..n |-> CoinGeckoPoint(PriceSeries(n, 0, 10 * 60 * 1000, 2650, inc)[i])] :
      n \in SeriesLengths, inc \in SeriesIncrements }
PredictionGlobalSlopes == {R(0), <<1, 2>>, <<-3, 4>>}
\* five headlines with three triggers between them: confidence 3 / 10
BatchAtGate == <<H_War, H_Quiet, H_Quiet, H_Quiet, H_Quiet>>
PredictionSentiments ==
  {Null, Some(AnalyzeResponse(NEWS_War, NowMs)), Some(AnalyzeResponse(NEWS_LowConfidence, NowMs)),
   Some(analyzeHeadlines(BatchAtGate, NowMs))}

\* calculatePrediction() with state.data = data, currentTimeRange = tf,
\* globalSlope = gSlope and state.sentiment = sentiment
CallCalculatePrediction(data, tf, gSlope, sentiment) ==
  /\ applied = NoCall
  /\ applied' = [fn |-> "calculatePrediction", data |-> data, tf |-> tf,
                 gSlope |-> gSlope, sentiment |-> sentiment,
                 result |-> calculatePrediction(data, tf, gSlope, sentiment)]
  /\ UNCHANGED otherThanApplied

\* sequences handed to linearRegression: n times the same value, and a rising
\* one
RegressionLengths == {0, 1, 2, 3, 6, 7, 10, 12}
RegressionValues == {DOfInt(2650), DOfRatio(265037, 100), DOfRatio(1, 10)}
RegressionInputs ==
  { [i \in 1..n |-> v] : n \in RegressionLengths, v \in RegressionValues }
  \cup { [i \in 1..n |-> DOfInt(2650 + 2 * i)] : n \in RegressionLengths }

\* linearRegression(values)
CallLinearRegression(values) ==
  /\ applied = NoCall
  /\ applied' = [fn |-> "linearRegression", values |-> values,
                 result |-> linearRegressionDouble(values)]
  /\ UNCHANGED otherThanApplied

\* integer sequences handed to linearRegression, where the arithmetic of the
\* Number type is exact
MaxExactLen == 4
ExactValues == {-2, 0, 3, 5}
ExactInputs == UNION { [1..n -> ExactValues] : n \in 2..MaxExactLen }

\* linearRegression(values) on integers
CallLinearRegressionExact(values) ==
  /\ applied = NoCall
  /\ applied' = [fn |-> "linearRegressionExact", values |-> values,
                 result |-> linearRegression(values)]
  /\ UNCHANGED otherThanApplied

(***************************************************************************)
(* The economic calendar: the /api/forex-factory-calendar handler and      *)
(* EconomicCalendarPanel.fetchEvents.  Calendar times are in minutes.      *)
(***************************************************************************)
NowMinutes == NowMs \div (60 * 1000)
DayMinutes == 24 * 60

\* e[f], or Null where a JSON object has no such property
Field(e, f) == IF f \in DOMAIN e THEN Some(e[f]) ELSE Null

\* mapVolatility of the handler and of the panel: volatility?.toUpperCase()
mapVolatility(volatility) ==
  IF volatility = Some("HIGH") THEN "high"
  ELSE IF volatility = Some("MEDIUM") THEN "medium"
  ELSE "low"

\* the comparator both sorts use: upcoming before past, upcoming by ascending
\* time, past by descending time
CompareEvents(a, b, now) ==
  IF a.time < now /\ ~(b.time < now) THEN 1
  ELSE IF ~(a.time < now) /\ b.time < now THEN -1
  ELSE IF a.time < now /\ b.time < now THEN b.time - a.time
  ELSE a.time - b.time

RECURSIVE InsertEvent(_, _, _)
InsertEvent(sorted, e, now) ==
  IF sorted = <<>> THEN <<e>>
  ELSE IF CompareEvents(e, Head(sorted), now) < 0 THEN <<e>> \o sorted
  ELSE <<Head(sorted)>> \o InsertEvent(Tail(sorted), e, now)

\* Array.prototype.sort with CompareEvents: stable
RECURSIVE SortEvents(_, _)
SortEvents(events, now) ==
  IF events = <<>> THEN <<>>
  ELSE InsertEvent(SortEvents(SubSeq(events, 1, Len(events) - 1), now),
                   events[Len(events)], now)

\* whether an object passes e.currencyCode === 'USD' && e.volatility === 'HIGH'
IsUsdHigh(e) == Field(e, "currencyCode") = Some("USD") /\ Field(e, "volatility") = Some("HIGH")

\* the object the handler makes of an FXStreet event (the value fields actual,
\* forecast, previous and goldEffect are left out of the model)
HandlerEvent(e) ==
  [id |-> e.id, name |-> e.name, time |-> e.dateUtc, country |-> e.countryCode,
   currency |-> e.currencyCode, impact |-> mapVolatility(Some(e.volatility)),
   source |-> "fxstreet"]

\* the handler's answer to what the FXStreet API returned
handler(upstream) ==
  IF upstream.kind # "ok"
    THEN [kind |-> "response", status |-> 500,
          body |-> [error |-> "Failed to fetch calendar", events |-> <<>>, fallback |-> TRUE]]
    ELSE LET kept == SelectSeq(upstream.data, IsUsdHigh)
             events == SortEvents([i \in 1..Len(kept) |-> HandlerEvent(kept[i])], NowMinutes)
         IN  [kind |-> "response", status |-> 200,
              body |-> [events |-> events, total |-> Len(upstream.data),
                        highImpact |-> Len(events), source |-> "fxstreet.com"]]

\* getMockEvents(): the built-in events, at a time of day of today + days
MockEvent(id, days, hour, minute, impact) ==
  [id |-> id,
   time |-> (NowMinutes - (NowMinutes % DayMinutes)) + days * DayMinutes + hour * 60 + minute,
   country |-> "US", currency |-> "USD", impact |-> impact]

getMockEvents ==
  SortEvents(<<MockEvent("gdp-q4", 0, 8, 30, "high"),
               MockEvent("jobless-claims", 0, 8, 30, "medium"),
               MockEvent("pce-price", 1, 8, 30, "high"),
               MockEvent("core-pce", 1, 8, 30, "high"),
               MockEvent("personal-income", 1, 8, 30, "medium"),
               MockEvent("ism-mfg", 3, 10, 0, "high"),
               MockEvent("nfp-mar", 7, 8, 30, "high"),
               MockEvent("unemp-rate", 7, 8, 30, "high"),
               MockEvent("avg-hourly", 7, 8, 30, "high"),
               MockEvent("fomc-mar", 21, 14, 0, "high"),
               MockEvent("powell-presser", 21, 14, 30, "high")>>, NowMinutes)

\* a || b on optional values
OrField(a, b) == IF a # Null THEN a ELSE b

\* the EconomicEvent the panel makes of a received object
PanelEvent(e) ==
  [id |-> Val(Field(e, "id")),
   time |-> Val(OrField(Field(e, "dateUtc"), OrField(Field(e, "time"), Some(NowMinutes)))),
   country |-> Val(OrField(Field(e, "countryCode"), OrField(Field(e, "country"), Some("US")))),
   currency |-> Val(OrField(Field(e, "currencyCode"), OrField(Field(e, "currency"), Some("USD")))),
   impact |-> mapVolatility(Field(e, "volatility"))]

\* the events fetchEvents keeps of the objects it received
PanelEvents(rawEvents) ==
  SortEvents([i \in 1..Len(SelectSeq(rawEvents, IsUsdHigh)) |->
                PanelEvent(SelectSeq(rawEvents, IsUsdHigh)[i])], NowMinutes)

\* the panel after fetchEvents, given the answer to fetch('/api/forex-factory-calendar')
PanelWith(events) ==
  [events |-> events, loading |-> FALSE, error |-> Null,
   count |-> Len(SelectSeq(events, LAMBDA e : e.impact = "high"))]

fetchEvents(response) ==
  IF response.kind # "response" \/ response.status \notin 200..299
    THEN PanelWith(getMockEvents)
  ELSE IF Len(response.body.events) = 0 THEN PanelWith(getMockEvents)
  ELSE IF Len(PanelEvents(response.body.events)) = 0 THEN PanelWith(getMockEvents)
  ELSE PanelWith(PanelEvents(response.body.events))

\* events of the FXStreet API: two hours ahead, three hours ago, 26 hours ahead,
\* one of another currency and one of medium volatility
FxEvent(id, name, dateUtc, currencyCode, volatility) ==
  [id |-> id, name |-> name, dateUtc |-> dateUtc, countryCode |-> "US",
   currencyCode |-> currencyCode, volatility |-> volatility]
FX_Cpi == FxEvent("e-cpi", "CPI m/m", NowMinutes + 2 * 60, "USD", "HIGH")
FX_Nfp == FxEvent("e-nfp", "Nonfarm Payrolls", NowMinutes - 3 * 60, "USD", "HIGH")
FX_Gdp == FxEvent("e-gdp", "GDP q/q", NowMinutes + 26 * 60, "USD", "HIGH")
FX_Ecb == FxEvent("e-ecb", "ECB Rate Decision", NowMinutes + 60, "EUR", "HIGH")
FX_Claims == FxEvent("e-claims", "Jobless Claims", NowMinutes + 90, "USD", "MEDIUM")
FxEvents == {FX_Cpi, FX_Nfp, FX_Gdp, FX_Ecb, FX_Claims}

\* what the FXStreet API can answer: up to MaxUpstream different events in any
\* order, or a failure
MaxUpstream == 2
FxstreetOk(data) == [kind |-> "ok", data |-> data]
FxstreetResponses ==
  { FxstreetOk(data) :
      data \in { d \in UNION { [1..n -> FxEvents] : n \in 0..MaxUpstream } :
                   \A i \in 1..Len(d), j \in 1..Len(d) : i # j => d[i] # d[j] } }
  \cup {HttpNotOk, NetworkError}

\* what fetch('/api/forex-factory-calendar') can give the panel
CalendarResponses == { handler(upstream) : upstream \in FxstreetResponses } \cup {NetworkError}

\* fetchEvents() with the given answer of the endpoint
CallFetchEvents(response) ==
  /\ applied = NoCall
  /\ applied' = [fn |-> "fetchEvents", response |-> response, result |-> fetchEvents(response)]
  /\ UNCHANGED otherThanApplied

AppliedNext ==
  \/ \E headlines \in HeadlineBatches : CallAnalyzeHeadlines(headlines)
  \/ \E data \in PredictionSeries, tf \in TimeRanges, gSlope \in PredictionGlobalSlopes,
        sentiment \in PredictionSentiments :
       CallCalculatePrediction(data, tf, gSlope, sentiment)
  \/ \E values \in RegressionInputs : CallLinearRegression(values)
  \/ \E values \in ExactInputs : CallLinearRegressionExact(values)
  \/ \E response \in CalendarResponses : CallFetchEvents(response)

(***************************************************************************)
(* Specifications                                                          *)
(***************************************************************************)
Init == SentimentInit /\ MarketInit /\ ChartInit /\ AppliedInit

SpecApplied == Init /\ [][AppliedNext]_vars

Spec == Init /\ [][Next]_vars

\* Spec with the timers the code sets: an AbortSignal.timeout fires unless the
\* request it guards is answered first.  No provider is assumed to answer.
SpecFair ==
  /\ Init
  /\ [][Next]_vars
  /\ \A s \in Slots : WF_vars(PrimaryTimeout(s)) /\ WF_vars(QsPrimaryTimeout(s))

SpecSentiment == Init /\ [][SentimentNext]_vars

SpecMarket == Init /\ [][MarketNext]_vars

(***************************************************************************)
(* Claims about the sentiment cache                                        *)
(***************************************************************************)
\* a step in which caller c invokes fetchAndAnalyzeSentiment
IsSentimentCallStep(c) ==
  /\ sentimentCalls[c].pc \in {"idle", "returned"}
  /\ sentimentCalls'[c] # sentimentCalls[c]

\* C9 as stated: once an analysis is stored at time t = cacheTimestamp, that same
\* result stays the one served until t + 5 minutes: it is not replaced or dropped
\* before then, every call made before t + 5 minutes returns it without a network
\* request, and a call at or after t + 5 minutes issues a network request.
C9_AsStated ==
  [][ /\ (cachedSentiment # Null /\ clock' - cacheTimestamp < 5 * 60 * 1000)
           => /\ cachedSentiment' = cachedSentiment
              /\ \A c \in Callers :
                   IsSentimentCallStep(c)
                     => /\ sentimentCalls'[c].pc = "returned"
                        /\ sentimentCalls'[c].result = cachedSentiment
                        /\ ~sentimentCalls'[c].network
      /\ (cachedSentiment # Null /\ clock - cacheTimestamp >= 5 * 60 * 1000)
           => \A c \in Callers :
                IsSentimentCallStep(c)
                  => sentimentCalls'[c].pc = "fetching" /\ sentimentCalls'[c].network
    ]_vars

\* C9 (amended): while the analysis stored at time t = cacheTimestamp is still the
\* cached one (not replaced by a later store, not cleared), every call made before
\* t + 5 minutes returns it without issuing a network request, and every call made
\* at or after t + 5 minutes, or with an empty cache, issues a network request.
\* The cached result is the one analysed at cacheTimestamp.
C9_CacheServedWithinTtl ==
  /\ [](cachedSentiment # Null => Val(cachedSentiment).lastUpdated = cacheTimestamp)
  /\ [][ \A c \in Callers :
           IsSentimentCallStep(c)
             => IF cachedSentiment # Null /\ clock - cacheTimestamp < 5 * 60 * 1000
                  THEN /\ sentimentCalls'[c].pc = "returned"
                       /\ sentimentCalls'[c].result = cachedSentiment
                       /\ ~sentimentCalls'[c].network
                       /\ UNCHANGED <<cachedSentiment, cacheTimestamp>>
                  ELSE /\ sentimentCalls'[c].pc = "fetching"
                       /\ sentimentCalls'[c].network
     ]_vars

\* C9 witness: time has passed since the store, the entry is exactly 4 minutes
\* old, and a call has just been answered from the cache without a request
C9_Witness ==
  \E c \in Callers :
    /\ cachedSentiment # Null
    /\ clock - cacheTimestamp = 4 * 60 * 1000
    /\ sentimentCalls[c].pc = "returned"
    /\ ~sentimentCalls[c].network
    /\ sentimentCalls[c].result = cachedSentiment

\* a step in which caller c's request fails: non-ok status, a thrown error, a timeout
IsSentimentFailureStep(c) ==
  \/ SentimentTimeout(c)
  \/ SentimentRespond(c, HttpNotOk)
  \/ SentimentRespond(c, NetworkError)

\* C10: fetchAndAnalyzeSentiment never rejects; when the request fails (non-ok
\* response, thrown error, timeout) it returns the cached result with its
\* confidence halved and every other field equal if there is a cached result, and
\* otherwise a result with score 0, adjustmentPercent 0, confidence 0 and an
\* empty summary.
C10_FailureFallsBack ==
  /\ [](\A c \in Callers : sentimentCalls[c].pc \in {"idle", "fetching", "returned"})
  /\ [][ \A c \in Callers :
           IsSentimentFailureStep(c)
             => /\ sentimentCalls'[c].pc = "returned"
                /\ sentimentCalls'[c].result # Null
                /\ LET got == Val(sentimentCalls'[c].result)
                   IN  IF cachedSentiment # Null
                         THEN LET was == Val(cachedSentiment)
                              IN  /\ got.confidence = RMul(was.confidence, <<1, 2>>)
                                  /\ got.score = was.score
                                  /\ got.adjustmentPercent = was.adjustmentPercent
                                  /\ got.triggerWords = was.triggerWords
                                  /\ got.summary = was.summary
                                  /\ got.headlines = was.headlines
                                  /\ got.lastUpdated = was.lastUpdated
                         ELSE /\ got.score = R(0)
                              /\ got.adjustmentPercent = R(0)
                              /\ got.confidence = R(0)
                              /\ got.summary = Summary("", <<>>)
     ]_vars

\* C10 witness: a failed request has been answered with the cached result at half
\* its (non-zero) confidence
C10_Witness ==
  \E c \in Callers :
    /\ cachedSentiment # Null
    /\ sentimentCalls[c].pc = "returned"
    /\ sentimentCalls[c].network
    /\ Val(cachedSentiment).confidence # R(0)
    /\ Val(sentimentCalls[c].result).confidence
         = RMul(Val(cachedSentiment).confidence, <<1, 2>>)

(***************************************************************************)
(* Claims about the market service                                         *)
(***************************************************************************)
\* a step in which call c obtains no quote for its symbols: the response holds
\* none of them, or the request fails
ObtainsNoQuote(c) ==
  \/ \E resp \in QuoteResponses :
       /\ MarketRespond(c, resp)
       /\ RequestedResults(marketCalls[c].request, resp) = <<>>
  \/ MarketFailDefault(c)
  \/ MarketFailThrow(c)

\* C6: whenever a call of fetchMultipleStocks obtains no quote for the requested
\* symbols (empty response, or the request throws) and an earlier call with the
\* same set of symbols, in any order, returned at least one quote, the call
\* returns exactly that earlier result for the key; it returns an empty result
\* only when no such entry exists.
C6_ReturnsLastKnownGood ==
  [][ \A c \in MarketCallers :
        ObtainsNoQuote(c)
          => LET entry == lastSuccessfulByKey[SetKeyOf(marketCalls[c].request)]
             IN  /\ entry # Null => marketCalls'[c].data = Val(entry)
                 /\ marketCalls'[c].data = <<>> => entry = Null
    ]_vars

\* C7: breaker failures are counted per request key: a call is short-circuited
\* to fallback data without a request only if the calls for its own symbol set
\* have failed BREAKER_THRESHOLD times in a row, and a call made once the
\* cool-down has elapsed, or after a success, goes to the network.
C7_BreakerPerKey ==
  [][ \A c \in MarketCallers :
        (marketCalls[c].pc \in {"idle", "returned"} /\ marketCalls'[c] # marketCalls[c])
          => /\ marketCalls'[c].shortCircuited
                  => keyFailures[SetKeyOf(marketCalls'[c].request)] >= BREAKER_THRESHOLD
             /\ (\/ stockBreaker.failures = 0
                 \/ marketNow - stockBreaker.openedAt >= BREAKER_COOLDOWN_MS)
                  => marketCalls'[c].pc = "awaiting"
    ]_vars

(***************************************************************************)
(* Claims about GoldPriceChart                                             *)
(***************************************************************************)
\* C1: for one GoldPriceChart at most one refresh (fetchData) is in flight at
\* any time: a timer tick, a time range click, setTimeRange, refresh() or the
\* retry button arriving during a refresh does not start a second one.
C1_SingleRefreshInFlight ==
  Cardinality({ s \in Slots : refreshes[s].pc # "idle" }) <= 1

\* C2: after destroy() has returned, the timer never starts a refresh and no
\* step of a refresh that was in flight changes the chart state, whenever
\* destroy() was called relative to init().
C2_NothingAfterDestroy ==
  [][ destroyed
        => /\ ~TimerTick
           /\ \A s \in Slots :
                (refreshes[s].pc # "idle" /\ refreshes'[s] # refreshes[s])
                  => state' = state
    ]_vars

\* C3: no price refresh waits for a sentiment fetch; in particular the first
\* refresh, issued by init(), is never held back by nothing but a pending
\* sentiment fetch.
C3_NoRefreshWaitsOnSentiment ==
  ~( /\ initPc = "awaitAll"
     /\ initAwait.globalSlope = "done"
     /\ initAwait.sentiment = "pending" )

\* C4: within one refresh the primary provider's series is adopted if and only
\* if it has more than 5 points, and then the secondary provider is not called;
\* in every other case (null, thrown, timed out, non-ok, 5 or fewer points) the
\* secondary provider is called, and it is called exactly once in the refresh.
C4_PrimaryAdoptedOrSecondaryOnce ==
  /\ [](\A s \in Slots :
          /\ refreshes[s].secCalls <= 1
          /\ refreshes[s].pc \in {"idle", "primary"} => refreshes[s].secCalls = 0
          /\ refreshes[s].pc = "secondary" => refreshes[s].secCalls = 1)
  /\ [][ \A s \in Slots :
           /\ (refreshes[s].pc = "primary" /\ refreshes'[s] # refreshes[s])
                => /\ \A resp \in PrimaryResponses :
                        PrimaryRespond(s, resp)
                          => LET xautData == XautFromResponse(resp, currentTimeRange)
                             IN  IF xautData # Null /\ Len(Val(xautData)) > 5
                                   THEN /\ state'.data = Val(xautData)
                                        /\ state'.dataSource = "xaut"
                                        /\ refreshes'[s].pc = "qsPrimary"
                                        /\ refreshes'[s].secCalls = 0
                                   ELSE /\ state'.data = state.data
                                        /\ refreshes'[s].pc = "secondary"
                                        /\ refreshes'[s].secCalls = 1
                   /\ PrimaryTimeout(s)
                        => /\ state'.data = state.data
                           /\ refreshes'[s].pc = "secondary"
                           /\ refreshes'[s].secCalls = 1
           /\ (refreshes[s].pc \in {"secondary", "qsPrimary", "qsFallback"}
               /\ refreshes'[s] # refreshes[s]
               /\ refreshes'[s].pc # "idle")
                => /\ refreshes'[s].pc # "secondary"
                   /\ refreshes'[s].secCalls = refreshes[s].secCalls
     ]_vars

\* C4 witness: one refresh has adopted a primary series of more than 5 points
\* without calling the secondary provider, while another, whose primary series
\* was rejected, is in its one call of the secondary provider
C4_Witness ==
  \E s, t \in Slots :
    /\ refreshes[s].pc = "qsPrimary"
    /\ refreshes[s].secCalls = 0
    /\ state.dataSource = "xaut"
    /\ Len(state.data) > 5
    /\ refreshes[t].pc = "secondary"
    /\ refreshes[t].secCalls = 1

\* C5: a refresh in which both providers fail ends with state.error non-null
\* only if no earlier refresh for the same time range ever succeeded; if one
\* did, the refresh ends without error.
C5_ErrorOnlyWithoutEarlierSuccess ==
  [][ \A s \in Slots :
        (refreshes[s].pc = "secondary" /\ refreshes'[s].pc = "idle")
          => \A resp \in SecondaryResponses :
               (SecondaryRespond(s, resp) /\ YahooThrows(resp))
                 => /\ state'.error # Null => ~refreshes[s].priorSuccess
                    /\ refreshes[s].priorSuccess
                         => (state'.error = Null /\ ~state'.loading)
    ]_vars

\* C8: every refresh started by fetchData eventually finishes, even when a
\* provider never answers.
C8_EveryRefreshFinishes ==
  \A s \in Slots : (refreshes[s].pc # "idle") ~> (refreshes[s].pc = "idle")

(***************************************************************************)
(* Claims about the functions called directly                              *)
(***************************************************************************)
\* C11: analyzeHeadlines applied to an empty list returns score 0, confidence 0
\* and an empty summary string.
C11_EmptyBatchIsNeutral ==
  (applied.fn = "analyzeHeadlines" /\ applied.headlines = <<>>)
    => /\ applied.result.score = R(0)
       /\ applied.result.confidence = R(0)
       /\ applied.result.summary = EmptySummary

\* the ranges of a SentimentResult
SentimentInRange(r) ==
  /\ RLe(R(-1), r.score) /\ RLe(r.score, R(1))
  /\ RLe(R(-3), r.adjustmentPercent) /\ RLe(r.adjustmentPercent, R(3))
  /\ RLe(R(0), r.confidence) /\ RLe(r.confidence, R(1))

\* analyzeHeadlines keeps the ranges on every batch of headlines
BatchesInRange ==
  \A headlines \in HeadlineBatches : SentimentInRange(analyzeHeadlines(headlines, NowMs))

\* C12: every SentimentResult returned by analyzeHeadlines, for every batch of
\* headlines, and by fetchAndAnalyzeSentiment, after any sequence of successful
\* and failed fetches, has -1 <= score <= 1, -3 <= adjustmentPercent <= 3 and
\* 0 <= confidence <= 1; so has the cached result.
C12_SentimentInRange ==
  /\ BatchesInRange
  /\ \A c \in Callers :
       sentimentCalls[c].result # Null => SentimentInRange(Val(sentimentCalls[c].result))
  /\ cachedSentiment # Null => SentimentInRange(Val(cachedSentiment))

\* C12 witness: one call has returned an analysis whose score sits on the clamp
\* (score 1, adjustment 3), another has returned the cached result at half its
\* confidence after a failed request
C12_Witness ==
  \E c, d \in Callers :
    /\ sentimentCalls[c].pc = "returned" /\ sentimentCalls[d].pc = "returned"
    /\ Val(sentimentCalls[c].result).score = R(1)
    /\ Val(sentimentCalls[c].result).adjustmentPercent = R(3)
    /\ cachedSentiment # Null
    /\ Val(sentimentCalls[d].result).confidence # R(0)
    /\ Val(sentimentCalls[d].result).confidence # Val(cachedSentiment).confidence
    /\ Val(sentimentCalls[d].result).confidence
         = RMul(Val(cachedSentiment).confidence, <<1, 2>>)

\* C13: calculatePrediction returns null for every series of fewer than 10
\* points; for 10 or more points it returns exactly projectionPoints + 1 points,
\* the first with the timestamp and the close of the last historical point,
\* with or without a sentiment adjustment, and point i stamped i * intervalMs
\* after it.
C13_PredictionShape ==
  applied.fn = "calculatePrediction" =>
    IF Len(applied.data) < 10
      THEN applied.result = Null
      ELSE LET config == PREDICTION_CONFIG(applied.tf)
               last == applied.data[Len(applied.data)]
               points == Val(applied.result).points
           IN  /\ applied.result # Null
               /\ Len(points) = config.projectionPoints + 1
               /\ points[1] = [timestamp |-> last.timestamp, value |-> R(last.close)]
               /\ \A i \in 1..config.projectionPoints :
                    points[i + 1].timestamp = last.timestamp + i * config.intervalMs

\* C13 witness: a prediction over exactly 10 points with a sentiment adjustment
\* applied to the projected values
C13_Witness ==
  /\ applied.fn = "calculatePrediction"
  /\ Len(applied.data) = 10
  /\ applied.result # Null
  /\ Val(applied.result).sentimentAdjustment # R(0)
  /\ Val(applied.result).points[2].value
       # RAdd(R(applied.data[10].close), Val(applied.result).slope)

(***************************************************************************)
(* Claims about the chart's series, quick stats and prediction              *)
(***************************************************************************)
\* a refresh in slot s completes without error in this step: fetchData runs
\* from the return of fetchQuickStats to the end of its try block
CompletesRefresh(s) ==
  /\ refreshes[s].pc \in {"qsPrimary", "qsFallback"}
  /\ refreshes'[s].pc = "idle"

\* strictly ascending by timestamp (so no timestamp twice), every close > 0
SeriesWellFormed(data) ==
  /\ \A i \in 1..(Len(data) - 1) : data[i].timestamp < data[i + 1].timestamp
  /\ \A i \in 1..Len(data) : data[i].close > 0

\* C14: after every refresh that completes without error, state.data is
\* strictly ascending by timestamp, has no timestamp twice and holds only
\* points with close > 0, whatever the adopted provider returned.
C14_SeriesWellFormed ==
  [][ \A s \in Slots : CompletesRefresh(s) => SeriesWellFormed(state'.data) ]_vars

\* C15: after a refresh cycle whose quick-stats window is empty (neither the
\* primary nor the fallback source yields a point), state.quickStats is null,
\* even when an earlier cycle had produced QuickStats, and the cycle does not
\* end in an error.
C15_EmptyWindowClearsQuickStats ==
  [][ \A s \in Slots :
        refreshes[s].pc = "qsFallback" =>
          \A resp \in QuickStatsFallbackResponses :
            (QuickStatsFallbackOf[resp] = Null /\ QsFallbackRespond(s, resp))
              => (state'.quickStats = Null /\ state'.error = Null) ]_vars

\* fetchGlobalSlope has run for the refresh in slot s: it finished after the
\* refresh began, or the refresh is the one init() starts right after it
SlopeRecomputedFor(s) ==
  \/ initPc = "awaitFetch" /\ initSlot = s
  \/ initAwait.globalSlope = "done" /\ ~refreshes[s].slopeDone

\* C16: each refresh cycle recomputes the global slope before its prediction
\* uses it: a refresh that completes with a prediction blending the global
\* slope (local weight below 1) has had fetchGlobalSlope run for it.
C16_SlopeRecomputedEachCycle ==
  [][ \A s \in Slots :
        ( /\ CompletesRefresh(s)
          /\ Len(state'.data) > 0
          /\ state'.prediction # Null
          /\ blendWeights(currentTimeRange) # R(1) )
          => SlopeRecomputedFor(s) ]_vars

\* C19: the secondary provider is held to the acceptance rule of the primary:
\* its series becomes state.data only if it has more than 5 valid points; a
\* response with 5 or fewer valid points, none included, is not written to
\* state.data.
C19_SecondaryAcceptance ==
  [][ \A s \in Slots :
        refreshes[s].pc = "secondary" =>
          \A resp \in { r \in SecondaryResponses : ~YahooThrowsOn[r] } :
            SecondaryRespond(s, resp) =>
              IF Len(YahooSeriesOf[resp, Val(refreshes[s].yahooTf)]) > 5
                THEN state'.data = YahooSeriesOf[resp, Val(refreshes[s].yahooTf)]
                ELSE state'.data = state.data ]_vars

\* C20: after a refresh that completes without error, state.prediction is the
\* prediction computed from the series of that cycle: null when the series has
\* fewer than 10 points, the empty series included, and never the prediction
\* of an earlier cycle or time range.
C20_PredictionOfThisCycle ==
  [][ \A s \in Slots :
        CompletesRefresh(s) =>
          /\ Len(state'.data) < 10 => state'.prediction = Null
          /\ state'.prediction
               = PredictionOf[state'.data, currentTimeRange, globalSlope, state'.sentiment]
     ]_vars

(***************************************************************************)
(* Claims about linearRegression and the slope blend                        *)
(***************************************************************************)
\* two doubles are the same number
DEqual(a, b) == DIsZero(DSub(a, b))

AllEqual(values) == \A i \in 1..Len(values) : DEqual(values[i], values[1])

\* C17: linearRegression returns a result for every input; for a sequence of
\* length 0 or 1 and for every longer sequence of equal values the slope is 0
\* and rSquared is 0, and the intercept is 0 for the empty sequence and the
\* common value otherwise.
C17_DegenerateRegression ==
  (applied.fn = "linearRegression" /\ AllEqual(applied.values))
    => /\ DIsZero(applied.result.slope)
       /\ DIsZero(applied.result.rSquared)
       /\ DEqual(applied.result.intercept,
                 IF Len(applied.values) = 0 THEN DZero ELSE applied.values[1])

\* slopes the blend is tried on: zero, rounding residues, negative and large
BlendSamples ==
  {DZero, DOfRatio(1, 10), DNeg(DOfRatio(265037, 100)), DOfRatio(1, 3),
   linearRegressionDouble([i \in 1..6 |-> DOfRatio(265037, 100)]).slope}

\* at local weight 1 the blend is the local slope, at local weight 0 the scaled
\* global slope, in the arithmetic of the Number type
BlendEndsExact ==
  \A localSlope \in BlendSamples, scaledGlobalSlope \in BlendSamples :
    /\ DEqual(BlendSlopesDouble(localSlope, scaledGlobalSlope, DOfInt(1)), localSlope)
    /\ DEqual(BlendSlopesDouble(localSlope, scaledGlobalSlope, DOfInt(0)), scaledGlobalSlope)

\* every configured local weight is in [0, 1]; the weights do not decrease from
\* '1h' to '7d'
BlendWeightsOrdered ==
  /\ \A tf \in TimeRanges : RLe(R(0), blendWeights(tf)) /\ RLe(blendWeights(tf), R(1))
  /\ RLe(blendWeights("1h"), blendWeights("6h"))
  /\ RLe(blendWeights("6h"), blendWeights("24h"))
  /\ RLe(blendWeights("24h"), blendWeights("7d"))

\* C18: with the sentiment adjustment inactive, the blended slope of
\* calculatePrediction is the local regression slope when the local weight is 1
\* (time range '7d') and globalSlope * (intervalMs / 1 hour) when the local
\* weight is 0; every configured weight is in [0, 1] and the weights do not
\* decrease from '1h' to '7d'.
C18_BlendEnds ==
  /\ BlendWeightsOrdered
  /\ blendWeights("7d") = R(1)
  /\ BlendEndsExact
  /\ ( /\ applied.fn = "calculatePrediction"
       /\ applied.result # Null
       /\ ~SentimentGated(applied.sentiment) )
       => /\ blendWeights(applied.tf) = R(1) =>
               Val(applied.result).slope
                 = linearRegression(LookbackPrices(applied.data, applied.tf)).slope
          /\ BlendSlopes(linearRegression(LookbackPrices(applied.data, applied.tf)).slope,
                         RMul(applied.gSlope,
                              RNorm(PREDICTION_CONFIG(applied.tf).intervalMs, 60 * 60 * 1000)),
                         R(0))
               = RMul(applied.gSlope,
                      RNorm(PREDICTION_CONFIG(applied.tf).intervalMs, 60 * 60 * 1000))

\* C18 witness: a '7d' prediction without sentiment whose local slope is not 0
\* while the global slope is not 0 either
C18_Witness ==
  /\ applied.fn = "calculatePrediction"
  /\ applied.tf = "7d"
  /\ applied.result # Null
  /\ applied.sentiment = Null
  /\ applied.gSlope # R(0)
  /\ Val(applied.result).slope # R(0)
  /\ Val(applied.result).slope # applied.gSlope

(***************************************************************************)
(* Claims about headline filtering, the summary and the fallback           *)
(***************************************************************************)
\* the ok responses of which no headline survives the filter
NoSurvivorResponses ==
  {r \in NewsResponses : r.kind = "ok" /\ Len(HeadlinesOf[r]) = 0}

\* C21: when the headline request succeeds but no headline survives filtering,
\* fetchAndAnalyzeSentiment returns the zero-confidence neutral result (score 0,
\* adjustmentPercent 0, confidence 0, empty summary), whether or not an earlier
\* result is cached.
C21_NoSurvivorIsNeutral ==
  [][ \A c \in Callers :
        sentimentCalls[c].pc = "fetching" =>
          \A resp \in NoSurvivorResponses :
            SentimentRespond(c, resp)
              => /\ sentimentCalls'[c].result # Null
                 /\ Val(sentimentCalls'[c].result).score = R(0)
                 /\ Val(sentimentCalls'[c].result).adjustmentPercent = R(0)
                 /\ Val(sentimentCalls'[c].result).confidence = R(0)
                 /\ Val(sentimentCalls'[c].result).summary = EmptySummary
    ]_vars

\* the titles of an ok response that are strings of at least n characters
TitlesOfAtLeast(resp, n) ==
  LET articles == IF resp.articles = Null THEN <<>> ELSE Val(resp.articles)
      kept == SelectSeq(articles, LAMBDA a : a.title # Null /\ Len(Val(a.title)) >= n)
  IN  [i \in 1..Len(kept) |-> Val(kept[i].title)]

\* C22: in fetchAndAnalyzeSentiment a fetched headline is passed to scoring if
\* and only if it is a string of at least 10 characters: shorter titles are
\* discarded and a title of exactly 10 characters is kept.
C22_TenCharactersKept ==
  [][ \A c \in Callers :
        sentimentCalls[c].pc = "fetching" =>
          \A resp \in {r \in NewsResponses : r.kind = "ok"} :
            SentimentRespond(c, resp)
              => HeadlinesOf[resp] = TitlesOfAtLeast(resp, 10)
    ]_vars

\* the triggers of all headlines of a batch, in order
BatchTriggers(headlines) == FlattenTriggers(HeadlineResults(headlines))

\* the summary listing the first up to 3 triggers of one sign
SignedSummary(text, sign, triggers) ==
  Summary(text, SliceFirst(SelectSeq(triggers, LAMBDA t : t.sign = sign), 3))

\* the neutral and the mixed message
NeutralSummaries ==
  {Summary("Mixed signals - neutral stance", <<>>), Summary("Neutral sentiment", <<>>)}

\* the summary of the applied analyzeHeadlines call follows the score with the
\* given threshold: above it the positive triggers, below its negative the
\* negative triggers, and in between, and only there, a neutral or mixed message
SummaryFollowsScore(threshold) ==
  ( /\ applied.fn = "analyzeHeadlines"
    /\ Len(applied.headlines) > 0 )
    => /\ RLt(threshold, applied.result.score)
            => applied.result.summary
                 = SignedSummary("Bullish for Gold: ", "+", BatchTriggers(applied.headlines))
       /\ RLt(applied.result.score, RSub(R(0), threshold))
            => applied.result.summary
                 = SignedSummary("Bearish for Gold: ", "-", BatchTriggers(applied.headlines))
       /\ applied.result.summary \in NeutralSummaries
            <=> ( /\ RLe(RSub(R(0), threshold), applied.result.score)
                  /\ RLe(applied.result.score, threshold) )

\* C23 as stated: for every non-empty batch, analyzeHeadlines chooses the summary
\* by the sign of the overall score: a score above 0 gives a summary listing the
\* first up to 3 positive triggers, a score below 0 a summary listing the first
\* up to 3 negative triggers, and only a score of exactly 0 gives the neutral or
\* mixed message.
C23_AsStated == SummaryFollowsScore(R(0))

\* C23 (amended): for every non-empty batch, analyzeHeadlines chooses the summary
\* by the overall score against 0.3: a score above 0.3 gives a summary listing
\* the first up to 3 positive triggers, a score below -0.3 a summary listing the
\* first up to 3 negative triggers, and only a score from -0.3 to 0.3 gives the
\* neutral or mixed message.
C23_SummaryByThreshold == SummaryFollowsScore(<<3, 10>>)

\* C23 witness: a batch with a positive score of at most 0.3 got the mixed message
C23_Witness ==
  /\ applied.fn = "analyzeHeadlines"
  /\ Len(applied.headlines) > 0
  /\ RLt(R(0), applied.result.score)
  /\ RLe(applied.result.score, <<3, 10>>)
  /\ applied.result.summary = Summary("Mixed signals - neutral stance", <<>>)

(***************************************************************************)
(* Claims about the sentiment gate of calculatePrediction                  *)
(***************************************************************************)
\* the projected values of a prediction are anchorClose + slope * i, times factor
ProjectsAlong(result, anchorClose, factor) ==
  \A i \in 1..(Len(result.points) - 1) :
    result.points[i + 1].value
      = RMul(RAdd(R(anchorClose), RMul(result.slope, R(i))), factor)

\* C24: the sentiment adjustment in calculatePrediction is gated at confidence
\* 0.3.  With no stored sentiment or a confidence below 0.3 every projected value
\* is anchor.close + blendedSlope * i, sentimentAdjustment is 0 and the result is
\* the one obtained without any sentiment (so it is the same for any two such
\* sentiments).  With a confidence of at least 0.3, 0.3 included, the per-step
\* nudge (anchor.close * adjustmentPercent / 100) / projectionPoints is added to
\* the slope and each projected value is multiplied by 1 + adjustmentPercent / 100.
C24_SentimentGate ==
  ( /\ applied.fn = "calculatePrediction"
    /\ applied.result # Null )
    => IF applied.sentiment = Null
            \/ RLt(Val(applied.sentiment).confidence, <<3, 10>>)
         THEN /\ ProjectsAlong(Val(applied.result),
                               applied.data[Len(applied.data)].close, R(1))
              /\ Val(applied.result).sentimentAdjustment = R(0)
              /\ applied.result
                   = calculatePrediction(applied.data, applied.tf, applied.gSlope, Null)
         ELSE /\ Val(applied.result).slope
                   = RAdd(Val(calculatePrediction(applied.data, applied.tf,
                                                  applied.gSlope, Null)).slope,
                          RDiv(RMul(R(applied.data[Len(applied.data)].close),
                                    RDiv(Val(applied.sentiment).adjustmentPercent, R(100))),
                               R(PREDICTION_CONFIG(applied.tf).projectionPoints)))
              /\ ProjectsAlong(Val(applied.result),
                               applied.data[Len(applied.data)].close,
                               RAdd(R(1), RDiv(Val(applied.sentiment).adjustmentPercent,
                                               R(100))))

\* C24 witness: a prediction made with a sentiment of confidence exactly 0.3 and
\* a non-zero adjustment
C24_Witness ==
  /\ applied.fn = "calculatePrediction"
  /\ applied.result # Null
  /\ applied.sentiment # Null
  /\ Val(applied.sentiment).confidence = <<3, 10>>
  /\ Val(applied.sentiment).adjustmentPercent # R(0)
  /\ Val(applied.result).sentimentAdjustment = Val(applied.sentiment).adjustmentPercent

(***************************************************************************)
(* Claims about the least-squares line                                     *)
(***************************************************************************)
\* the sum of squared residuals of values against the line slope * x + intercept
SquaredResiduals(values, slope, intercept) ==
  RegressionSsRes(values, [slope |-> slope, intercept |-> intercept])

\* the normal equations of least squares over x = 0..n-1: the residuals sum to
\* 0, and so do the residuals weighted by x
NormalEquations(values, line) ==
  /\ RSumOver([i \in 0..(Len(values) - 1) |->
                 RSub(R(values[i + 1]), RAdd(RMul(line.slope, R(i)), line.intercept))],
              0, Len(values) - 1) = R(0)
  /\ RSumOver([i \in 0..(Len(values) - 1) |->
                 RMul(R(i), RSub(R(values[i + 1]),
                                 RAdd(RMul(line.slope, R(i)), line.intercept)))],
              0, Len(values) - 1) = R(0)

\* lines next to a line: slope and intercept moved by these amounts
Perturbations == {R(-1), R(0), R(1)}

\* the lines through two of the points
ChordsOf(values) ==
  { [slope |-> RNorm(values[j] - values[i], j - i),
     intercept |-> RSub(R(values[i]), RMul(RNorm(values[j] - values[i], j - i), R(i - 1)))] :
      <<i, j>> \in {p \in (1..Len(values)) \X (1..Len(values)) : p[1] < p[2]} }

\* C25: for every sequence of length >= 2 whose values are not all equal,
\* linearRegression returns the slope and intercept of the least-squares line
\* over x = 0..n-1 (it satisfies the normal equations, and no neighbouring line
\* and no line through two of the points has a smaller sum of squared
\* residuals) and an rSquared with 0 <= rSquared <= 1, in exact arithmetic over
\* bounded integer inputs.
C25_LeastSquares ==
  ( /\ applied.fn = "linearRegressionExact"
    /\ Len(applied.values) >= 2
    /\ \E i \in 1..Len(applied.values) : applied.values[i] # applied.values[1] )
    => /\ NormalEquations(applied.values, applied.result)
       /\ \A ds \in Perturbations, di \in Perturbations :
            RLe(SquaredResiduals(applied.values, applied.result.slope,
                                 applied.result.intercept),
                SquaredResiduals(applied.values, RAdd(applied.result.slope, ds),
                                 RAdd(applied.result.intercept, di)))
       /\ \A chord \in ChordsOf(applied.values) :
            RLe(SquaredResiduals(applied.values, applied.result.slope,
                                 applied.result.intercept),
                SquaredResiduals(applied.values, chord.slope, chord.intercept))
       /\ RLe(R(0), applied.result.rSquared)
       /\ RLe(applied.result.rSquared, R(1))

\* C25 witness: a sequence that lies on no line, fitted with a falling slope and
\* an rSquared strictly between 0 and 1
C25_Witness ==
  /\ applied.fn = "linearRegressionExact"
  /\ Len(applied.values) = MaxExactLen
  /\ RLt(applied.result.slope, R(0))
  /\ RLt(R(0), applied.result.rSquared)
  /\ RLt(applied.result.rSquared, R(1))

(***************************************************************************)
(* Claims about the sentiment cache under concurrent callers               *)
(***************************************************************************)
\* C26: under every interleaving of concurrent fetchAndAnalyzeSentiment calls
\* and readers (getCachedSentiment, clearSentimentCache, the TTL check) the
\* sentiment cache is replaced as a whole: in every state cachedSentiment is
\* non-null exactly when cacheTimestamp is greater than 0, the timestamp is that
\* of the write that stored the cached result, and every step that writes one of
\* the two writes the other with it.
C26_CacheReplacedAsAWhole ==
  /\ []( /\ cachedSentiment # Null <=> cacheTimestamp > 0
         /\ cachedSentiment # Null => cacheTimestamp = Val(cachedSentiment).lastUpdated
         /\ cacheTimestamp <= clock )
  /\ [][ /\ cacheTimestamp' # cacheTimestamp => cachedSentiment' # cachedSentiment
         /\ cachedSentiment' # cachedSentiment
              => cacheTimestamp' = IF cachedSentiment' = Null THEN 0 ELSE clock' ]_vars

\* C26 witness: two callers had requests in flight together and both stored an
\* analysis; the cache holds the later one with its own timestamp
C26_Witness ==
  \E c \in Callers, d \in Callers :
    /\ c # d
    /\ sentimentCalls[c].pc = "returned" /\ sentimentCalls[c].network
    /\ sentimentCalls[d].pc = "returned" /\ sentimentCalls[d].network
    /\ sentimentCalls[c].result # sentimentCalls[d].result
    /\ Val(sentimentCalls[c].result).confidence = R(1)
    /\ Val(sentimentCalls[d].result).confidence = R(1)
    /\ Val(sentimentCalls[c].result).lastUpdated = Val(sentimentCalls[d].result).lastUpdated
    /\ cachedSentiment = sentimentCalls[d].result
    /\ cacheTimestamp = Val(sentimentCalls[d].result).lastUpdated

\* a step in which caller c's fetch fails or comes back without a usable headline
IsFailedOrEmptyFetch(c) ==
  \/ IsSentimentFailureStep(c)
  \/ \E resp \in NoSurvivorResponses : SentimentRespond(c, resp)

\* C28: a failed or empty sentiment fetch leaves cachedSentiment and
\* cacheTimestamp unchanged.  Every such fetch, however many came before it,
\* returns the cached analysis with exactly half of its confidence (no returned
\* result carries a quarter of it), and as the cache is as expired as before, a
\* later call that finds it expired issues a network request.
C28_FailureLeavesCache ==
  /\ [][ \A c \in Callers :
           sentimentCalls[c].pc = "fetching" =>
             ( IsFailedOrEmptyFetch(c)
                 => /\ UNCHANGED <<cachedSentiment, cacheTimestamp>>
                    /\ cachedSentiment # Null
                         => Val(sentimentCalls'[c].result).confidence
                              = RMul(Val(cachedSentiment').confidence, <<1, 2>>) )
     ]_vars
  /\ [][ \A c \in Callers :
           ( /\ IsSentimentCallStep(c)
             /\ cachedSentiment # Null
             /\ clock - cacheTimestamp >= CACHE_TTL )
             => sentimentCalls'[c].pc = "fetching" /\ sentimentCalls'[c].network
     ]_vars
  /\ [](\A c \in Callers :
          ( /\ sentimentCalls[c].pc = "returned"
            /\ sentimentCalls[c].network
            /\ cachedSentiment # Null
            /\ Val(sentimentCalls[c].result).headlines = Val(cachedSentiment).headlines
            /\ Val(sentimentCalls[c].result).lastUpdated = Val(cachedSentiment).lastUpdated )
            => Val(sentimentCalls[c].result).confidence
                 \in {Val(cachedSentiment).confidence,
                      RMul(Val(cachedSentiment).confidence, <<1, 2>>)})

\* C28 witness: the cached analysis (confidence 1) is 6 minutes old, one caller's
\* fetch has failed and returned it at confidence 1/2, and the other caller's
\* call, made after the cache expired, has a request in flight
C28_Witness ==
  \E c \in Callers, d \in Callers :
    /\ cachedSentiment # Null
    /\ Val(cachedSentiment).confidence = R(1)
    /\ clock - cacheTimestamp = 6 * 60 * 1000
    /\ sentimentCalls[c].pc = "returned"
    /\ sentimentCalls[c].network
    /\ Val(sentimentCalls[c].result).confidence = <<1, 2>>
    /\ sentimentCalls[d].pc = "fetching"

(***************************************************************************)
(* Claims about the series of the selected time range                      *)
(***************************************************************************)
\* no fetchData call is in flight, and the last one to finish succeeded
LastRefreshSucceeded ==
  /\ started > 0
  /\ \A s \in Slots : refreshes[s].pc = "idle"
  /\ ~state.loading
  /\ state.error = Null

\* C27: whenever no refresh of a GoldPriceChart is in flight and the most recent
\* refresh to finish succeeded, state.data is the series that was requested and
\* cut off for the currently selected timeframe: it is neither an older
\* timeframe's series nor one fetched with one timeframe's range and filtered
\* with another's cutoff.
C27_SeriesOfSelectedRange ==
  LastRefreshSucceeded
    => /\ dataOrigin.requested = Some(currentTimeRange)
       /\ dataOrigin.cutoff = Some(currentTimeRange)

(***************************************************************************)
(* Claims about a refresh that fails                                       *)
(***************************************************************************)
\* C29: when a refresh fails because the primary provider is rejected and the
\* secondary provider throws, state.data, state.dataSource, state.prediction,
\* state.quickStats and state.trend keep the values they had before the refresh,
\* state.error is set to a non-null message and state.loading is false.
C29_FailedRefreshKeepsSeries ==
  [][ \A s \in Slots :
        refreshes[s].pc = "secondary" =>
          \A resp \in { r \in SecondaryResponses : YahooThrowsOn[r] } :
            SecondaryRespond(s, resp)
              => /\ Some(Shown(state')) = refreshes[s].before
                 /\ state'.error # Null
                 /\ ~state'.loading
    ]_vars

(***************************************************************************)
(* Claims about the economic calendar                                      *)
(***************************************************************************)
\* what identifies an event on both sides: its id and its time
EventKeys(events) == [i \in 1..Len(events) |-> <<events[i].id, events[i].time>>]

\* upcoming first by ascending time, then past by descending time
UpcomingFirst(events) ==
  \A i \in 1..Len(events), j \in 1..Len(events) :
    i < j => CompareEvents(events[i], events[j], NowMinutes) <= 0

\* C30: EconomicCalendarPanel.fetchEvents handles the { events: [...] } payload
\* of the /api/forex-factory-calendar handler: whenever the handler answers 200
\* with at least one event, the panel's events after the fetch are those events
\* (ordered upcoming first by ascending time, then past by descending time) and
\* not the built-in mock events.
C30_PanelShowsHandlerEvents ==
  ( /\ applied.fn = "fetchEvents"
    /\ applied.response.kind = "response"
    /\ applied.response.status = 200
    /\ Len(applied.response.body.events) >= 1 )
    => /\ EventKeys(applied.result.events) = EventKeys(applied.response.body.events)
       /\ UpcomingFirst(applied.result.events)
       /\ applied.result.events # getMockEvents

====
